---------------------------- MODULE Spec2Model ----------------------------
(***************************************************************************)
(* A model of openscreen's cursor-driven auto zoom:                        *)
(*   - MouseTracker (electron/mouse-tracker.ts) and the mouse-tracking IPC *)
(*     handlers that drive it,                                             *)
(*   - generateAutoZoomRegions / generateFocusKeyframes / mergeZoomRegions *)
(*     (the auto-zoom synthesizer),                                        *)
(*   - computeRegionStrength / findDominantRegion /                        *)
(*     interpolateFocusFromKeyframes (region dominance and focus),         *)
(*   - the per-frame ticker, applyTransform and clampFocusToStage of       *)
(*     VideoPlayback.tsx,                                                  *)
(*   - store-cursor-events / load-cursor-events (cursor event storage),    *)
(*   - getCursorPositionAtTime of CursorOverlay.tsx,                       *)
(*   - the focus overlay of VideoPlayback.tsx and its pointer handlers.    *)
(*                                                                         *)
(* Each part has its own specification over the variables it owns; the     *)
(* variables of the other parts stay at their initial values.              *)
(*                                                                         *)
(* Numbers.  JavaScript numbers are modelled exactly where the code only   *)
(* adds, subtracts and compares integers (timestamps, raw coordinates).    *)
(* Fractions are kept exact as [n, d] records where the code divides once  *)
(* (normalised coordinates, easing curves).  Normalised focus coordinates  *)
(* that are stored and compared are fixed point in units of 1/NormScale.   *)
(***************************************************************************)
EXTENDS Integers, Sequences, FiniteSets, TLC

(***************************************************************************)
(* Bounds of the model (not program constants).                            *)
(***************************************************************************)
MaxEvents == 2
\* the hook delivers at most MaxEvents events in a run of the model

MaxClockSteps == 2
\* the wall clock advances at most MaxClockSteps times

MaxStarts == 2
\* at most MaxStarts start-mouse-tracking requests are made

MaxStream == 3
\* the synthesizer's input stream holds at most MaxStream events

MaxRegions == 2
\* mergeZoomRegions is given at most MaxRegions auto and MaxRegions manual regions

MaxCalls == 2
\* generateAutoZoomRegions is called at most MaxCalls times in a chain

MaxTimeSteps == 36
\* playback times are the multiples of TimeStep up to MaxTimeSteps * TimeStep

MaxInputChanges == 1
\* playback's time, container size and play state change at most
\* MaxInputChanges times in all

MaxStoredEvents == 2
\* store-cursor-events is given at most MaxStoredEvents events

MaxStores == 2
\* store-cursor-events is called at most MaxStores times

MaxOverlayEvents == 3
\* the cursor overlay is given at most MaxOverlayEvents events

MaxPointerEvents == 4
\* the focus overlay handles at most MaxPointerEvents pointer events and selections

\* Date.now() when the model starts (any value >= moveThrottleMs)
ClockBase == 250 * 4

\* the wall clock advances in steps of ClockStep ms (half the move throttle)
ClockStep == 2 + 2

(***************************************************************************)
(* Generic helpers.                                                        *)
(***************************************************************************)
Null == [null |-> TRUE]
\* JavaScript null for object-valued fields

Max(a, b) == IF a >= b THEN a ELSE b

Min(a, b) == IF a <= b THEN a ELSE b

Abs(a) == IF a < 0 THEN -a ELSE a

\* an exact fraction n/d, d > 0
Frac(n, d) == [n |-> n, d |-> d]

FracLeq(p, q) == p.n * q.d <= q.n * p.d

FracLess(p, q) == p.n * q.d < q.n * p.d

FracEq(p, q) == p.n * q.d = q.n * p.d

FracZero == Frac(0, 1)

FracOne == Frac(1, 1)

FracMin(p, q) == IF FracLeq(p, q) THEN p ELSE q

VARIABLES
  \* ---- MouseTracker fields (mouse-tracker.ts) ----
  isTracking,          \* private isTracking
  events,              \* private events: CursorEvent[]
  config,              \* private config: MouseTrackerConfig | null
  displayBounds,       \* private displayBounds
  lastMoveTime,        \* private lastMoveTime
  \* ---- the uIOhook singleton, as the tracker uses it ----
  listeners,           \* number of registrations of the tracker's handler per hook event
  hookStarted,         \* whether uIOhook.start() succeeded and it was not stopped since
  \* ---- the main process around the tracker ----
  now,                 \* Date.now()
  currentCursorEvents, \* ipc/handlers.ts: let currentCursorEvents
  \* ---- observation of the last operation (not program state) ----
  lastOp,              \* the operation that ran last, with its inputs and result
  sessionLog,          \* the events accepted since the last effective start, in order
  starts,              \* number of start-mouse-tracking requests so far
  deliveries,          \* number of events the hook has delivered so far
  returned,            \* Null, or the array the last stop returned: its elements at the
                       \* return (atReturn) and now (content), and whether
                       \* currentCursorEvents refers to it (mirrored)
  \* ---- inputs and result of the auto-zoom synthesizer ----
  cursorEvents,        \* the stored event stream given to generateAutoZoomRegions
  synth,               \* Null, or the last call's arguments and result
  \* ---- inputs and result of mergeZoomRegions ----
  autoRegions,         \* the autoRegions argument
  manualRegions,       \* the manualRegions argument
  merged,              \* Null, or [result] of the last call
  \* ---- inputs and result of findDominantRegion / interpolateFocusFromKeyframes ----
  domRegions,          \* the regions argument
  dom,                 \* Null, or [timeMs, region, strength, focus] of the last evaluation
  \* ---- VideoPlayback ----
  animationState,      \* animationStateRef.current: [scale, focusX, focusY]
  stageSize,           \* stageSizeRef.current
  videoSize,           \* videoSizeRef.current
  baseScale,           \* baseScaleRef.current
  baseOffset,          \* baseOffsetRef.current
  sprite,              \* Null, or the video sprite's [scale, x, y]
  mask,                \* Null, or the mask's rounded rectangle
  blur,                \* blurFilterRef.current.blur
  isPlaying,           \* isPlayingRef.current
  currentTime,         \* currentTimeRef.current, in ms
  zoomRegions,         \* zoomRegionsRef.current
  container,           \* the container's client size
  tickerAdded,         \* the ticker runs
  lastTick,            \* Null, or what the last tick computed
  inputChanges,        \* the number of changes of time, size and play state so far
  \* ---- cursor event storage ----
  recordingFiles,      \* the files of RECORDINGS_DIR written so far: [path, data]
  lastStore,           \* Null, or the last store-cursor-events call and its result
  lastLoad,            \* Null, or the last load-cursor-events call since then
  stores,              \* number of store-cursor-events calls so far
  \* ---- cursor overlay ----
  overlayEvents,       \* the cursorEvents argument of getCursorPositionAtTime
  cursorAt,            \* Null, or [timeMs, result] of the last call
  \* ---- inputs and result of clampFocusToStage ----
  stageClamp,          \* Null, or the last call's focus, depth, geometry and result
  \* ---- the focus overlay of VideoPlayback.tsx ----
  isDraggingFocus,     \* isDraggingFocusRef.current
  selectedZoomId,      \* selectedZoomIdRef.current
  focusOverlay,        \* the overlay's pointer-events and cursor styles and the
                       \* indicator's rectangle (Null: display none)
  lastPointer,         \* the last event the overlay handled and the call of
                       \* onZoomFocusChange it made (emitted, or Null)
  inGesture,           \* a pointer-down arrived while playback was paused and the
                       \* selected region was in the list, and no pointer-up or
                       \* pointer-leave has arrived since (not program state)
  pointerSteps         \* number of pointer events and selections so far

trackerVars == <<isTracking, events, config, displayBounds, lastMoveTime>>

hookVars == <<listeners, hookStarted>>

captureVars == <<isTracking, events, config, displayBounds, lastMoveTime,
                 listeners, hookStarted, now, currentCursorEvents, lastOp, sessionLog,
                 starts, deliveries, returned>>

synthVars == <<cursorEvents, synth>>

mergeVars == <<autoRegions, manualRegions, merged>>

domVars == <<domRegions, dom>>

engineVars == <<animationState, stageSize, videoSize, baseScale, baseOffset, sprite, mask,
                blur, isPlaying, currentTime, zoomRegions, container, tickerAdded,
                lastTick, inputChanges>>

storageVars == <<recordingFiles, lastStore, lastLoad, stores>>

overlayVars == <<overlayEvents, cursorAt>>

clampVars == <<stageClamp>>

dragVars == <<isDraggingFocus, selectedZoomId, focusOverlay, lastPointer, inGesture,
              pointerSteps>>

vars == <<captureVars, synthVars, mergeVars, domVars, engineVars, storageVars, overlayVars,
          clampVars, dragVars>>

\* what the actions of one part leave alone
notCapture == <<synthVars, mergeVars, domVars, engineVars, storageVars, overlayVars,
  clampVars, dragVars>>

notSynth == <<captureVars, mergeVars, domVars, engineVars, storageVars, overlayVars,
  clampVars, dragVars>>

notMerge == <<captureVars, synthVars, domVars, engineVars, storageVars, overlayVars,
  clampVars, dragVars>>

notDom == <<captureVars, synthVars, mergeVars, engineVars, storageVars, overlayVars,
  clampVars, dragVars>>

notEngine == <<captureVars, synthVars, mergeVars, domVars, storageVars, overlayVars,
  clampVars>>

\* what layoutVideoContent leaves alone of the focus overlay
notShown == <<isDraggingFocus, selectedZoomId, lastPointer, inGesture, pointerSteps>>

notStorage == <<captureVars, synthVars, mergeVars, domVars, engineVars, overlayVars,
  clampVars, dragVars>>

notOverlay == <<captureVars, synthVars, mergeVars, domVars, engineVars, storageVars,
  clampVars, dragVars>>

notClamp == <<captureVars, synthVars, mergeVars, domVars, engineVars, storageVars,
  overlayVars, dragVars>>

\* the focus overlay shares the refs of the playback engine
notDrag == notEngine

(***************************************************************************)
(* Cursor Event Capture: electron/mouse-tracker.ts                         *)
(***************************************************************************)
moveThrottleMs == 8

HookEvents == {"mousemove", "mousedown", "wheel"}

\* screen.getAllDisplays(): the primary display first, then one to its left
\* (negative origin) with another size.
Displays == << [x |-> 0, y |-> 0, width |-> 100, height |-> 50],
               [x |-> -80, y |-> 10, width |-> 80, height |-> 40] >>

PrimaryDisplay == Displays[1]

\* Source ids as desktopCapturer gives them, already split at ':'.
\* idx is parseInt(parts[1], 10); NaN stands for a part that is no number.
NaN == -1000000

SourceIds == { [kind |-> "screen", idx |-> 1], [kind |-> "screen", idx |-> NaN] }

\* displays[displayIndex] || screen.getPrimaryDisplay(), then .bounds
getDisplayBoundsForSource(sourceId) ==
  IF sourceId.kind = "screen"
  THEN IF sourceId.idx \in 0 .. (Len(Displays) - 1)
       THEN Displays[sourceId.idx + 1]
       ELSE PrimaryDisplay
  ELSE PrimaryDisplay

\* A faulty variant of normalizeCoordinates: no clamping into the display.
normalizeCoordinatesNoClamp(bounds, x, y) ==
  IF bounds = Null
  THEN [normalizedX |-> Frac(1, 2), normalizedY |-> Frac(1, 2)]
  ELSE [normalizedX |-> Frac(x - bounds.x, bounds.width),
        normalizedY |-> Frac(y - bounds.y, bounds.height)]

normalizeCoordinates(bounds, x, y) ==
  IF bounds = Null
  THEN [normalizedX |-> Frac(1, 2), normalizedY |-> Frac(1, 2)]
  ELSE LET clampedX == Max(bounds.x, Min(x, bounds.x + bounds.width))
           clampedY == Max(bounds.y, Min(y, bounds.y + bounds.height))
       IN [normalizedX |-> Frac(clampedX - bounds.x, bounds.width),
           normalizedY |-> Frac(clampedY - bounds.y, bounds.height)]

\* A faulty variant of getTimestamp: the wall-clock time itself.
getTimestampAbsolute(cfg, t) == t

getTimestamp(cfg, t) == IF cfg = Null THEN 0 ELSE t - cfg.recordingStartTime

\* Raw pointer positions the hook reports: inside the primary display, and
\* right of and above it.
RawPoints == { <<30, 20>>, <<130, -5>> }

Buttons == {1}

Rotations == {-3}

CaptureInit ==
  /\ isTracking = FALSE
  /\ events = <<>>
  /\ config = Null
  /\ displayBounds = Null
  /\ lastMoveTime = 0
  /\ listeners = [h \in HookEvents |-> 0]
  /\ hookStarted = FALSE
  /\ now = ClockBase
  /\ currentCursorEvents = <<>>
  /\ lastOp = [op |-> "init"]
  /\ sessionLog = <<>>
  /\ starts = 0
  /\ deliveries = 0
  /\ returned = Null

\* A faulty variant of MouseTrackerStart: the isTracking guard is missing.
MouseTrackerStartNoGuard(cfg, hookFails) ==
  /\ config' = cfg
  /\ events' = <<>>
  /\ isTracking' = TRUE
  /\ displayBounds' = getDisplayBoundsForSource(cfg.sourceId)
  /\ listeners' = [h \in HookEvents |-> listeners[h] + 1]
  /\ hookStarted' = (hookStarted \/ ~hookFails)
  /\ sessionLog' = <<>>
  /\ lastOp' = [op |-> "start", wasTracking |-> isTracking, threw |-> hookFails]
  /\ UNCHANGED lastMoveTime

\* MouseTracker.start(config).  hookFails: uIOhook.start() throws.
MouseTrackerStart(cfg, hookFails) ==
  IF isTracking
  THEN /\ lastOp' = [op |-> "start", wasTracking |-> TRUE, threw |-> FALSE]
       /\ UNCHANGED <<trackerVars, hookVars, sessionLog>>
  ELSE /\ config' = cfg
       /\ events' = <<>>
       /\ isTracking' = TRUE
       /\ displayBounds' = getDisplayBoundsForSource(cfg.sourceId)
       /\ listeners' = [h \in HookEvents |-> listeners[h] + 1]
       /\ hookStarted' = (hookStarted \/ ~hookFails)
       /\ sessionLog' = <<>>
       /\ lastOp' = [op |-> "start", wasTracking |-> FALSE, threw |-> hookFails]
       /\ UNCHANGED lastMoveTime

\* A faulty variant of MouseTrackerStop: the buffer is cleared before it is copied.
MouseTrackerStopClearsFirst(hookFails) ==
  IF ~isTracking
  THEN /\ lastOp' = [op |-> "stop", wasTracking |-> FALSE, ret |-> <<>>]
       /\ UNCHANGED <<trackerVars, hookVars, sessionLog>>
  ELSE /\ listeners' = [h \in HookEvents |-> Max(0, listeners[h] - 1)]
       /\ hookStarted' = (hookStarted /\ hookFails)
       /\ isTracking' = FALSE
       /\ events' = <<>>
       /\ config' = Null
       /\ displayBounds' = Null
       /\ lastOp' = [op |-> "stop", wasTracking |-> TRUE, ret |-> <<>>]
       /\ UNCHANGED <<lastMoveTime, sessionLog>>

\* A faulty variant of MouseTrackerStop: a failure of uIOhook.stop() ends the call
\* before the local state is cleared.
MouseTrackerStopGivesUp(hookFails) ==
  IF ~isTracking
  THEN /\ lastOp' = [op |-> "stop", wasTracking |-> FALSE, ret |-> <<>>]
       /\ UNCHANGED <<trackerVars, hookVars, sessionLog>>
  ELSE IF hookFails
  THEN /\ listeners' = [h \in HookEvents |-> Max(0, listeners[h] - 1)]
       /\ lastOp' = [op |-> "stop", wasTracking |-> TRUE, ret |-> <<>>]
       /\ UNCHANGED <<trackerVars, hookStarted, sessionLog>>
  ELSE /\ listeners' = [h \in HookEvents |-> Max(0, listeners[h] - 1)]
       /\ hookStarted' = FALSE
       /\ isTracking' = FALSE
       /\ events' = <<>>
       /\ config' = Null
       /\ displayBounds' = Null
       /\ lastOp' = [op |-> "stop", wasTracking |-> TRUE, ret |-> events]
       /\ UNCHANGED <<lastMoveTime, sessionLog>>

\* A faulty variant of MouseTrackerStop: the handlers stay subscribed.
MouseTrackerStopLeavesSubscribed(hookFails) ==
  IF ~isTracking
  THEN /\ lastOp' = [op |-> "stop", wasTracking |-> FALSE, ret |-> <<>>]
       /\ UNCHANGED <<trackerVars, hookVars, sessionLog>>
  ELSE /\ hookStarted' = (hookStarted /\ hookFails)
       /\ isTracking' = FALSE
       /\ events' = <<>>
       /\ config' = Null
       /\ displayBounds' = Null
       /\ lastOp' = [op |-> "stop", wasTracking |-> TRUE, ret |-> events]
       /\ UNCHANGED <<lastMoveTime, sessionLog, listeners>>

\* MouseTracker.stop().  hookFails: uIOhook.stop() throws (caught and logged).
MouseTrackerStop(hookFails) ==
  IF ~isTracking
  THEN /\ lastOp' = [op |-> "stop", wasTracking |-> FALSE, ret |-> <<>>]
       /\ UNCHANGED <<trackerVars, hookVars, sessionLog>>
  ELSE /\ listeners' = [h \in HookEvents |-> Max(0, listeners[h] - 1)]
       /\ hookStarted' = (hookStarted /\ hookFails)
       /\ isTracking' = FALSE
       /\ events' = <<>>
       /\ config' = Null
       /\ displayBounds' = Null
       /\ lastOp' = [op |-> "stop", wasTracking |-> TRUE, ret |-> events]
       /\ UNCHANGED <<lastMoveTime, sessionLog>>

\* this.events.push(event); this.config.onCursorEvent?.(event)
\* (the only callback the program installs pushes onto currentCursorEvents)
Accept(event) ==
  /\ events' = Append(events, event)
  /\ sessionLog' = Append(sessionLog, event)
  /\ currentCursorEvents' =
       IF config.onCursorEvent THEN Append(currentCursorEvents, event)
       ELSE currentCursorEvents
  /\ returned' =
       IF returned # Null /\ returned.mirrored /\ config.onCursorEvent
       THEN [returned EXCEPT !.content = Append(@, event)]
       ELSE returned

\* The hook calls a handler only while it runs and the handler is subscribed.
Delivers(h) ==
  /\ hookStarted
  /\ listeners[h] > 0
  /\ deliveries < MaxEvents
  /\ deliveries' = deliveries + 1

\* A faulty variant of MoveThrottled: no move is throttled.
MoveThrottledNever(t, last) == FALSE

\* now - this.lastMoveTime < this.moveThrottleMs
MoveThrottled(t, last) == t - last < moveThrottleMs

\* handleMouseMove(e), throttled
HandleMouseMove(p) ==
  /\ Delivers("mousemove")
  /\ IF ~isTracking \/ config = Null
     THEN /\ lastOp' = [op |-> "mousemove", accepted |-> FALSE]
          /\ UNCHANGED <<events, sessionLog, currentCursorEvents, returned, lastMoveTime>>
     ELSE IF MoveThrottled(now, lastMoveTime)
     THEN /\ lastOp' = [op |-> "mousemove", accepted |-> FALSE]
          /\ UNCHANGED <<events, sessionLog, currentCursorEvents, returned, lastMoveTime>>
     ELSE LET nc == normalizeCoordinates(displayBounds, p[1], p[2])
              event == [type |-> "move", timestamp |-> getTimestamp(config, now),
                        x |-> p[1], y |-> p[2],
                        normalizedX |-> nc.normalizedX, normalizedY |-> nc.normalizedY]
          IN /\ lastMoveTime' = now
             /\ Accept(event)
             /\ lastOp' = [op |-> "mousemove", accepted |-> TRUE]
  /\ UNCHANGED <<isTracking, config, displayBounds, hookVars, now, starts>>
  /\ UNCHANGED notCapture

\* handleMouseDown(e); hasButton: typeof e.button === 'number'
HandleMouseDown(p, button, hasButton) ==
  /\ Delivers("mousedown")
  /\ IF ~isTracking \/ config = Null
     THEN /\ lastOp' = [op |-> "mousedown", accepted |-> FALSE]
          /\ UNCHANGED <<events, sessionLog, currentCursorEvents, returned>>
     ELSE LET nc == normalizeCoordinates(displayBounds, p[1], p[2])
              base == [type |-> "click", timestamp |-> getTimestamp(config, now),
                       x |-> p[1], y |-> p[2],
                       normalizedX |-> nc.normalizedX, normalizedY |-> nc.normalizedY]
              event == IF hasButton THEN base @@ [button |-> button] ELSE base
          IN /\ Accept(event)
             /\ lastOp' = [op |-> "mousedown", accepted |-> TRUE]
  /\ UNCHANGED <<isTracking, config, displayBounds, lastMoveTime, hookVars, now, starts>>
  /\ UNCHANGED notCapture

\* handleWheel(e)
HandleWheel(p, rotation) ==
  /\ Delivers("wheel")
  /\ IF ~isTracking \/ config = Null
     THEN /\ lastOp' = [op |-> "wheel", accepted |-> FALSE]
          /\ UNCHANGED <<events, sessionLog, currentCursorEvents, returned>>
     ELSE LET nc == normalizeCoordinates(displayBounds, p[1], p[2])
              event == [type |-> "scroll", timestamp |-> getTimestamp(config, now),
                        x |-> p[1], y |-> p[2],
                        normalizedX |-> nc.normalizedX, normalizedY |-> nc.normalizedY,
                        scrollDelta |-> rotation]
          IN /\ Accept(event)
             /\ lastOp' = [op |-> "wheel", accepted |-> TRUE]
  /\ UNCHANGED <<isTracking, config, displayBounds, lastMoveTime, hookVars, now, starts>>
  /\ UNCHANGED notCapture

(***************************************************************************)
(* The mouse-tracking IPC handlers: electron/ipc/handlers.ts               *)
(***************************************************************************)
\* A faulty variant of StartMouseTracking: the handler keeps the array that
\* currentCursorEvents refers to instead of replacing it with a new one.
StartMouseTrackingKeepsArray(sourceId, recordingStartTime, hookFails) ==
  /\ starts < MaxStarts
  /\ starts' = starts + 1
  /\ UNCHANGED <<currentCursorEvents, returned>>
  /\ UNCHANGED deliveries
  /\ MouseTrackerStart([sourceId |-> sourceId,
                        recordingStartTime |-> recordingStartTime,
                        onCursorEvent |-> TRUE], hookFails)
  /\ UNCHANGED now
  /\ UNCHANGED notCapture

\* ipcMain.handle('start-mouse-tracking', ...)
StartMouseTracking(sourceId, recordingStartTime, hookFails) ==
  /\ starts < MaxStarts
  /\ starts' = starts + 1
  /\ currentCursorEvents' = <<>>
  /\ returned' = IF returned = Null THEN Null ELSE [returned EXCEPT !.mirrored = FALSE]
  /\ UNCHANGED deliveries
  /\ MouseTrackerStart([sourceId |-> sourceId,
                        recordingStartTime |-> recordingStartTime,
                        onCursorEvent |-> TRUE], hookFails)
  /\ UNCHANGED now
  /\ UNCHANGED notCapture

\* ipcMain.handle('stop-mouse-tracking', ...)
StopMouseTracking(hookFails) ==
  /\ MouseTrackerStop(hookFails)
  /\ currentCursorEvents' = lastOp'.ret
  /\ returned' = [atReturn |-> lastOp'.ret, content |-> lastOp'.ret, mirrored |-> TRUE]
  /\ UNCHANGED <<now, starts, deliveries>>
  /\ UNCHANGED notCapture

\* time passes
AdvanceClock ==
  /\ now < ClockBase + MaxClockSteps * ClockStep
  /\ now' = now + ClockStep
  /\ lastOp' = [op |-> "clock"]
  /\ UNCHANGED <<trackerVars, hookVars, currentCursorEvents, sessionLog, starts, deliveries,
                 returned>>
  /\ UNCHANGED notCapture

\* The hook emits an event of kind h that no handler of the tracker is
\* subscribed to: uIOhook still runs (its stop failed) after stop() took the
\* handlers off.
EmitsUnheard(h) ==
  /\ hookStarted
  /\ listeners[h] = 0
  /\ deliveries < MaxEvents
  /\ deliveries' = deliveries + 1
  /\ lastOp' = [op |-> "unheard", event |-> h]
  /\ UNCHANGED <<trackerVars, hookVars, currentCursorEvents, sessionLog, starts, now,
                 returned>>
  /\ UNCHANGED notCapture

CaptureNext ==
  \/ \E s \in SourceIds, lag \in {0, ClockStep}, f \in BOOLEAN :
        StartMouseTracking(s, now - lag, f)
  \/ \E f \in BOOLEAN : StopMouseTracking(f)
  \/ \E p \in RawPoints : HandleMouseMove(p)
  \/ \E p \in RawPoints, b \in Buttons, hb \in BOOLEAN : HandleMouseDown(p, b, hb)
  \/ \E p \in RawPoints, r \in Rotations : HandleWheel(p, r)
  \/ \E h \in HookEvents : EmitsUnheard(h)
  \/ AdvanceClock

(***************************************************************************)
(* Auto-Zoom Region Synthesizer: src/utils/cursorUtils.ts                  *)
(*                                                                         *)
(* Normalised coordinates are fixed point in units of 1/NormScale.         *)
(* Event timestamps are whole milliseconds.  videoDurationMs may be        *)
(* fractional (video.duration * 1000), so the times the function computes  *)
(* from it are kept in half milliseconds (H) until Math.round.             *)
(***************************************************************************)
NormScale == 10 * 100

H(ms) == 2 * ms

\* Math.round of a non-negative time given in half milliseconds
MathRound(h) == (h + 1) \div 2

DEFAULT_AUTO_ZOOM_CONFIG ==
  [zoomDepth |-> 3,
   zoomDurationMs |-> 2000,
   minIntervalMs |-> 500,
   keyframeSampleIntervalMs |-> 50,
   keyframeMinDistance |-> NormScale \div 100]

\* { ...DEFAULT_AUTO_ZOOM_CONFIG, ...config }
MergedConfig(overrides) == overrides @@ DEFAULT_AUTO_ZOOM_CONFIG

\* A faulty variant of ClampNorm: the value is not clamped.
ClampNormNone(v) == v

\* Math.max(0, Math.min(1, v))
ClampNorm(v) == Max(0, Min(NormScale, v))

ClampedFocus(e) == [cx |-> ClampNorm(e.normalizedX), cy |-> ClampNorm(e.normalizedY)]

DistSq(a, b) == (a.cx - b.cx) * (a.cx - b.cx) + (a.cy - b.cy) * (a.cy - b.cy)

\* distance >= config.keyframeMinDistance
MovedEnough(a, b, minDistance) == DistSq(a, b) >= minDistance * minDistance

\* A faulty variant of FinalMovedEnough: the distance test of the trailing keyframe is
\* dropped.
FinalMovedEnoughAlways(a, b, minDistance) == TRUE

\* distance >= config.keyframeMinDistance * 0.5
FinalMovedEnough(a, b, minDistance) == 4 * DistSq(a, b) >= minDistance * minDistance

\* the for loop over movesDuringZoom; acc = [keyframes, lastKeyframeFocus, lastSampleTime]
RECURSIVE KeyframeScan(_, _, _, _, _)
KeyframeScan(moves, i, zoomStartMs, cfg, acc) ==
  IF i > Len(moves) THEN acc
  ELSE LET moveEvent == moves[i]
           newFocus == ClampedFocus(moveEvent)
       IN IF moveEvent.timestamp - acc.lastSampleTime < cfg.keyframeSampleIntervalMs
          THEN KeyframeScan(moves, i + 1, zoomStartMs, cfg, acc)
          ELSE IF MovedEnough(newFocus, acc.lastKeyframeFocus, cfg.keyframeMinDistance)
          THEN KeyframeScan(moves, i + 1, zoomStartMs, cfg,
                 [keyframes |-> Append(acc.keyframes,
                                  [timeOffsetMs |-> moveEvent.timestamp - zoomStartMs,
                                   focus |-> newFocus]),
                  lastKeyframeFocus |-> newFocus,
                  lastSampleTime |-> moveEvent.timestamp])
          ELSE KeyframeScan(moves, i + 1, zoomStartMs, cfg, acc)

\* e.timestamp >= zoomStartMs && e.timestamp <= zoomEndMs  (zoomEndH in half ms)
InZoomWindow(e, zoomStartMs, zoomEndH) ==
  e.timestamp >= zoomStartMs /\ H(e.timestamp) <= zoomEndH

generateFocusKeyframes(stream, zoomStartMs, zoomEndH, initialFocus, cfg) ==
  LET first == << [timeOffsetMs |-> 0, focus |-> initialFocus] >>
      movesDuringZoom ==
        SelectSeq(stream, LAMBDA e : e.type = "move" /\ InZoomWindow(e, zoomStartMs, zoomEndH))
  IN IF Len(movesDuringZoom) = 0 THEN first
     ELSE LET scanned == KeyframeScan(movesDuringZoom, 1, zoomStartMs, cfg,
                           [keyframes |-> first,
                            lastKeyframeFocus |-> initialFocus,
                            lastSampleTime |-> zoomStartMs]).keyframes
              lastMove == movesDuringZoom[Len(movesDuringZoom)]
              lastKeyframe == scanned[Len(scanned)]
              finalFocus == ClampedFocus(lastMove)
          IN IF /\ lastMove.timestamp - zoomStartMs - lastKeyframe.timeOffsetMs > 50
                /\ FinalMovedEnough(finalFocus, lastKeyframe.focus, cfg.keyframeMinDistance)
             THEN Append(scanned, [timeOffsetMs |-> lastMove.timestamp - zoomStartMs,
                                   focus |-> finalFocus])
             ELSE scanned

\* A faulty variant of IsPrimaryClick: every click counts, whatever its button.
IsAnyClick(e) == e.type = "click"

\* e.type === 'click' && (e.button === 1 || e.button === undefined)
IsPrimaryClick(e) ==
  e.type = "click" /\ (("button" \notin DOMAIN e) \/ e.button = 1)

\* A faulty variant of AutoZoomId: the counter does not enter the id.
AutoZoomIdFixed(n) == [prefix |-> "auto-zoom-", n |-> 1]

\* `auto-zoom-${n}`
AutoZoomId(n) == [prefix |-> "auto-zoom-", n |-> n]

\* A faulty variant of NextLastZoomEnd: the debounce is measured from the zoom's start.
NextLastZoomEndFromStart(startMs, endH) == H(startMs)

\* lastZoomEndMs = endMs
NextLastZoomEnd(startMs, endH) == endH

\* the for loop over clickEvents; acc = [regions, idCounter, lastZoomEndH]
RECURSIVE ClickScan(_, _, _, _, _, _)
ClickScan(stream, clicks, i, videoDurationH, cfg, acc) ==
  IF i > Len(clicks) THEN acc
  ELSE LET clickEvent == clicks[i]
           startMs == clickEvent.timestamp
           endH == Min(H(startMs + cfg.zoomDurationMs), videoDurationH)
           initialFocus == ClampedFocus(clickEvent)
           focusKeyframes == generateFocusKeyframes(stream, startMs, endH, initialFocus, cfg)
           base == [id |-> AutoZoomId(acc.idCounter + 1),
                    startMs |-> startMs,
                    endMs |-> MathRound(endH),
                    depth |-> cfg.zoomDepth,
                    focus |-> initialFocus]
           region == IF Len(focusKeyframes) > 1
                     THEN base @@ [focusKeyframes |-> focusKeyframes]
                     ELSE base
       IN IF H(clickEvent.timestamp) - acc.lastZoomEndH < H(cfg.minIntervalMs)
          THEN ClickScan(stream, clicks, i + 1, videoDurationH, cfg, acc)
          ELSE IF endH - H(startMs) < H(300)
          THEN ClickScan(stream, clicks, i + 1, videoDurationH, cfg, acc)
          ELSE ClickScan(stream, clicks, i + 1, videoDurationH, cfg,
                 [regions |-> Append(acc.regions, region),
                  idCounter |-> acc.idCounter + 1,
                  lastZoomEndH |-> NextLastZoomEnd(startMs, endH)])

generateAutoZoomRegions(stream, videoDurationH, existingZoomIdCounter, overrides) ==
  LET cfg == MergedConfig(overrides)
      clickEvents == SelectSeq(stream, IsPrimaryClick)
  IN IF Len(clickEvents) = 0
     THEN [regions |-> <<>>, nextIdCounter |-> existingZoomIdCounter]
     ELSE LET done == ClickScan(stream, clickEvents, 1, videoDurationH, cfg,
                        [regions |-> <<>>,
                         idCounter |-> existingZoomIdCounter,
                         lastZoomEndH |-> -H(cfg.minIntervalMs)])
          IN [regions |-> done.regions, nextIdCounter |-> done.idCounter]

\* ---- inputs of the model ----
StreamTimes == {0, 40, 100, 600, 2000, 2500}

\* Where the pointer is: the click position; 3.6, 6 and 63 thousandths away
\* from it; outside [0,1] on both axes.
AtClick == [x |-> 500, y |-> 500]

NearClick == [x |-> 503, y |-> 502]

MidClick == [x |-> 506, y |-> 500]

FarFromClick == [x |-> 560, y |-> 520]

OutOfRange == [x |-> -20, y |-> 1010]

StreamEvent(type, t, p) ==
  [type |-> type, timestamp |-> t, x |-> 0, y |-> 0,
   normalizedX |-> p.x, normalizedY |-> p.y]

\* the events a stored stream may hold at time t
StreamEventsAt(t) ==
  { StreamEvent("move", t, p) : p \in {NearClick, MidClick, FarFromClick} }
  \cup { StreamEvent("click", t, AtClick) @@ [button |-> 1],
         StreamEvent("click", t, AtClick) @@ [button |-> 2],
         StreamEvent("click", t, OutOfRange) }
  \cup { StreamEvent("scroll", t, AtClick) @@ [scrollDelta |-> 1] }

\* calls of generateAutoZoomRegions: video duration (half ms), starting id
\* counter, config overrides
SynthCalls ==
  { [videoDurationH |-> H(5000), counter |-> 0, overrides |-> [minIntervalMs |-> 500]],
    [videoDurationH |-> H(5000), counter |-> 4, overrides |-> <<>>],
    [videoDurationH |-> H(800) + 1, counter |-> 0, overrides |-> <<>>],
    [videoDurationH |-> H(2600), counter |-> 0,
       overrides |-> [minIntervalMs |-> 0, zoomDurationMs |-> 400]] }

SynthInit ==
  /\ cursorEvents = <<>>
  /\ synth = Null

\* the recording appends one more event to the stored stream (timestamp order)
AppendStreamEvent ==
  /\ synth = Null
  /\ Len(cursorEvents) < MaxStream
  /\ \E t \in StreamTimes :
       /\ (Len(cursorEvents) > 0 => cursorEvents[Len(cursorEvents)].timestamp <= t)
       /\ \E e \in StreamEventsAt(t) : cursorEvents' = Append(cursorEvents, e)
  /\ UNCHANGED synth
  /\ UNCHANGED notSynth

\* the editor calls generateAutoZoomRegions on the stored stream
Generate ==
  /\ synth = Null
  /\ \E call \in SynthCalls :
       synth' = call @@ generateAutoZoomRegions(cursorEvents, call.videoDurationH,
                                                 call.counter, call.overrides)
                     @@ [issued |-> {}, calls |-> 1]
  /\ UNCHANGED cursorEvents
  /\ UNCHANGED notSynth

\* the ids of a region list
IdsOf(regions) == {regions[i].id : i \in 1 .. Len(regions)}

\* the editor calls generateAutoZoomRegions again, with the nextIdCounter the
\* call before returned; issued collects the ids of the earlier calls
GenerateAgain ==
  /\ synth # Null
  /\ synth.calls < MaxCalls
  /\ \E call \in SynthCalls :
       \E result \in {generateAutoZoomRegions(cursorEvents, call.videoDurationH,
                                               synth.nextIdCounter, call.overrides)} :
         synth' = [videoDurationH |-> call.videoDurationH,
                   counter |-> synth.nextIdCounter,
                   overrides |-> call.overrides,
                   regions |-> result.regions,
                   nextIdCounter |-> result.nextIdCounter,
                   issued |-> synth.issued \cup IdsOf(synth.regions),
                   calls |-> synth.calls + 1]
  /\ UNCHANGED cursorEvents
  /\ UNCHANGED notSynth

SynthNext == AppendStreamEvent \/ Generate \/ GenerateAgain

(***************************************************************************)
(* Region Merge: mergeZoomRegions of src/utils/cursorUtils.ts              *)
(***************************************************************************)
\* A faulty variant of OverlapsManual: regions that only touch count as overlapping.
OverlapsManualTouching(autoRegion, manual) ==
  ~(autoRegion.endMs < manual.startMs \/ autoRegion.startMs > manual.endMs)

\* !(autoRegion.endMs <= manual.startMs || autoRegion.startMs >= manual.endMs)
OverlapsManual(autoRegion, manual) ==
  ~(autoRegion.endMs <= manual.startMs \/ autoRegion.startMs >= manual.endMs)

\* Array.prototype.sort((a, b) => a.startMs - b.startMs): stable
RECURSIVE InsertByStart(_, _)
InsertByStart(sorted, r) ==
  IF sorted = <<>> THEN <<r>>
  ELSE IF sorted[Len(sorted)].startMs <= r.startMs THEN Append(sorted, r)
  ELSE Append(InsertByStart(SubSeq(sorted, 1, Len(sorted) - 1), r), sorted[Len(sorted)])

RECURSIVE SortByStart(_)
SortByStart(seq) ==
  IF seq = <<>> THEN <<>>
  ELSE InsertByStart(SortByStart(SubSeq(seq, 1, Len(seq) - 1)), seq[Len(seq)])

mergeZoomRegions(autos, manuals) ==
  SortByStart(manuals \o SelectSeq(autos, LAMBDA a :
                 ~(\E j \in 1 .. Len(manuals) : OverlapsManual(a, manuals[j]))))

\* ---- inputs of the model ----
\* [startMs, endMs] of the regions the lists are built from
RegionIntervals == { <<0, 2000>>, <<500, 1500>>, <<1500, 2000>>, <<2000, 3000>> }

ManualZoomId(n) == [prefix |-> "zoom-", n |-> n]

MakeRegion(id, iv) ==
  [id |-> id, startMs |-> iv[1], endMs |-> iv[2], depth |-> 3,
   focus |-> [cx |-> NormScale \div 2, cy |-> NormScale \div 2]]

MergeInit ==
  /\ autoRegions = <<>>
  /\ manualRegions = <<>>
  /\ merged = Null

AddAutoRegion ==
  /\ merged = Null
  /\ Len(autoRegions) < MaxRegions
  /\ \E iv \in RegionIntervals :
       autoRegions' = Append(autoRegions, MakeRegion(AutoZoomId(Len(autoRegions) + 1), iv))
  /\ UNCHANGED <<manualRegions, merged>>
  /\ UNCHANGED notMerge

AddManualRegion ==
  /\ merged = Null
  /\ Len(manualRegions) < MaxRegions
  /\ \E iv \in RegionIntervals :
       manualRegions' =
         Append(manualRegions, MakeRegion(ManualZoomId(Len(manualRegions) + 1), iv))
  /\ UNCHANGED <<autoRegions, merged>>
  /\ UNCHANGED notMerge

\* A faulty variant of MergeCall: merged is the manualRegions array itself, so
\* the pushes and the sort happen in the caller's list.
MergeCallInPlace(autos, manuals) ==
  [result |-> mergeZoomRegions(autos, manuals),
   autoRegions |-> autos,
   manualRegions |-> mergeZoomRegions(autos, manuals)]

\* one call of mergeZoomRegions: what it returns and what the two argument
\* arrays hold afterwards; merged is a copy ([...manualRegions]), the pushes
\* and the in-place sort touch only the copy
MergeCall(autos, manuals) ==
  [result |-> mergeZoomRegions(autos, manuals),
   autoRegions |-> autos,
   manualRegions |-> manuals]

\* the editor calls mergeZoomRegions(autoRegions, manualRegions)
Merge ==
  /\ merged = Null
  /\ \E call \in {MergeCall(autoRegions, manualRegions)} :
       /\ merged' = [result |-> call.result]
       /\ autoRegions' = call.autoRegions
       /\ manualRegions' = call.manualRegions
  /\ UNCHANGED notMerge

\* the editor calls mergeZoomRegions again with the same two arrays
MergeAgain ==
  /\ merged # Null
  /\ \E call \in {MergeCall(autoRegions, manualRegions)} :
       /\ merged' = [result |-> call.result, previous |-> merged.result]
       /\ autoRegions' = call.autoRegions
       /\ manualRegions' = call.manualRegions
  /\ UNCHANGED notMerge

MergeNext == AddAutoRegion \/ AddManualRegion \/ Merge \/ MergeAgain

(***************************************************************************)
(* Geometry/Math Utilities: src/components/video-editor/videoPlayback/     *)
(* mathUtils.ts, over exact fractions.                                     *)
(***************************************************************************)
RECURSIVE Gcd(_, _)
Gcd(a, b) == IF b = 0 THEN a ELSE Gcd(b, a % b)

\* the fraction in lowest terms, with a positive denominator
FracReduce(f) ==
  LET g == Gcd(Abs(f.n), Abs(f.d))
      sgn == IF f.d < 0 THEN -1 ELSE 1
  IN IF g = 0 THEN f ELSE Frac(sgn * (f.n \div g), sgn * (f.d \div g))

\* Math.max(0, Math.min(1, value))
clamp01(value) ==
  LET v == FracReduce(value)
  IN IF FracLess(v, FracZero) THEN FracZero
     ELSE IF FracLess(FracOne, v) THEN FracOne ELSE v

\* clamped * clamped * (3 - 2 * clamped)
smoothStep(t) ==
  LET c == clamp01(t)
  IN FracReduce(Frac(c.n * c.n * (3 * c.d - 2 * c.n), c.d * c.d * c.d))

\* clamped * clamped * clamped * (clamped * (clamped * 6 - 15) + 10)
smootherStep(t) ==
  LET c == clamp01(t)
  IN FracReduce(Frac(c.n * c.n * c.n * (6 * c.n * c.n - 15 * c.n * c.d + 10 * c.d * c.d),
                     c.d * c.d * c.d * c.d * c.d))

\* A faulty variant of catmullRomInterpolate: a blend of the neighbouring points
\* that does not pass through p1 at t = 0.
catmullRomInterpolateBlended(p0, p1, p2, p3, t) ==
  FracReduce(Frac((p0 + 4 * p1 + p2) * t.d + (p3 - p0) * t.n, 6 * t.d))

\* catmullRomInterpolate(p0, p1, p2, p3, t, 0.5): the Hermite form with
\* tangents m1 = (p2 - p0) / 2 and m2 = (p3 - p1) / 2; t is a fraction n/d.
catmullRomInterpolate(p0, p1, p2, p3, t) ==
  LET n == t.n
      d == t.d
      t3 == n * n * n
      t2 == n * n * d
      t1 == n * d * d
      t0 == d * d * d
  IN FracReduce(Frac(2 * (2 * t3 - 3 * t2 + t0) * p1
                       + (t3 - 2 * t2 + t1) * (p2 - p0)
                       + 2 * (3 * t2 - 2 * t3) * p2
                       + (t3 - t2) * (p3 - p1),
                     2 * t0))

(***************************************************************************)
(* Region Dominance & Focus Interpolator: videoPlayback/zoomRegionUtils.ts *)
(* and videoPlayback/constants.ts                                          *)
(***************************************************************************)
TRANSITION_WINDOW_MS == 400

\* A faulty variant of computeRegionStrength: the lead-in starts at the region's start
\* and the lead-out ends at the region's end.
computeRegionStrengthInside(region, timeMs) ==
  IF timeMs < region.startMs \/ timeMs > region.endMs
  THEN FracZero
  ELSE FracMin(smootherStep(Frac(timeMs - region.startMs, TRANSITION_WINDOW_MS)),
               smootherStep(Frac(region.endMs - timeMs, TRANSITION_WINDOW_MS)))

computeRegionStrength(region, timeMs) ==
  LET leadInStart == region.startMs - TRANSITION_WINDOW_MS
      leadOutEnd == region.endMs + TRANSITION_WINDOW_MS
  IN IF timeMs < leadInStart \/ timeMs > leadOutEnd
     THEN FracZero
     ELSE LET fadeIn == smootherStep(Frac(timeMs - leadInStart, TRANSITION_WINDOW_MS))
              fadeOut == smootherStep(Frac(leadOutEnd - timeMs, TRANSITION_WINDOW_MS))
          IN FracMin(fadeIn, fadeOut)

\* a focus whose coordinates are fractions of NormScale units
FocusFrac(focus) == [cx |-> Frac(focus.cx, 1), cy |-> Frac(focus.cy, 1)]

interpolateFocusFromKeyframes(region, currentTimeMs) ==
  IF "focusKeyframes" \notin DOMAIN region \/ region.focusKeyframes = <<>>
  THEN FocusFrac(region.focus)
  ELSE
    LET keyframes == region.focusKeyframes
        len == Len(keyframes)
        timeOffset == currentTimeMs - region.startMs
        found == {i \in 1 .. len - 1 :
                    /\ timeOffset >= keyframes[i].timeOffsetMs
                    /\ timeOffset < keyframes[i + 1].timeOffsetMs}
        currentIndex == IF found = {} THEN 1
                        ELSE CHOOSE i \in found : \A j \in found : i <= j
    IN IF timeOffset <= keyframes[1].timeOffsetMs THEN FocusFrac(keyframes[1].focus)
       ELSE IF timeOffset >= keyframes[len].timeOffsetMs THEN FocusFrac(keyframes[len].focus)
       ELSE
         LET p1 == keyframes[currentIndex]
             p2 == keyframes[currentIndex + 1]
             p0 == IF currentIndex > 1 THEN keyframes[currentIndex - 1] ELSE p1
             p3 == IF currentIndex + 2 <= len THEN keyframes[currentIndex + 2] ELSE p2
             segmentDuration == p2.timeOffsetMs - p1.timeOffsetMs
         IN IF segmentDuration <= 0 THEN FocusFrac(p1.focus)
            ELSE
              LET t == FracReduce(Frac(timeOffset - p1.timeOffsetMs, segmentDuration))
              IN [cx |-> catmullRomInterpolate(p0.focus.cx, p1.focus.cx,
                                               p2.focus.cx, p3.focus.cx, t),
                  cy |-> catmullRomInterpolate(p0.focus.cy, p1.focus.cy,
                                               p2.focus.cy, p3.focus.cy, t)]

\* A faulty variant of DominantScan: a later region of equal strength replaces
\* the best one.
RECURSIVE DominantScanLastWins(_, _, _, _)
DominantScanLastWins(regions, i, timeMs, best) ==
  IF i > Len(regions) THEN best
  ELSE LET strength == computeRegionStrength(regions[i], timeMs)
       IN DominantScanLastWins(regions, i + 1, timeMs,
                               IF FracLeq(best.strength, strength)
                               THEN [region |-> regions[i], strength |-> strength]
                               ELSE best)

\* the loop of findDominantRegion from region i on
RECURSIVE DominantScan(_, _, _, _)
DominantScan(regions, i, timeMs, best) ==
  IF i > Len(regions) THEN best
  ELSE LET strength == computeRegionStrength(regions[i], timeMs)
       IN DominantScan(regions, i + 1, timeMs,
                       IF FracLess(best.strength, strength)
                       THEN [region |-> regions[i], strength |-> strength]
                       ELSE best)

findDominantRegion(regions, timeMs) ==
  DominantScan(regions, 1, timeMs, [region |-> Null, strength |-> FracZero])

\* ---- inputs of the model ----
TimeStep == 10 * 10

TimeGrid == {TimeStep * k : k \in 0 .. MaxTimeSteps}

Keyframe(t, cx, cy) == [timeOffsetMs |-> t, focus |-> [cx |-> cx, cy |-> cy]]

\* the regions the list is built from: the region [1000, 3000] with a static
\* focus, a short one, one of no length, and an early one with keyframes that turn
DomRegionPool ==
  { [startMs |-> 1000, endMs |-> 3000, depth |-> 3, focus |-> [cx |-> 200, cy |-> 700]],
    [startMs |-> 3200, endMs |-> 3400, depth |-> 2, focus |-> [cx |-> 100, cy |-> 900]],
    [startMs |-> 2000, endMs |-> 2000, depth |-> 1, focus |-> [cx |-> 500, cy |-> 500]],
    [startMs |-> 500, endMs |-> 1500, depth |-> 5, focus |-> [cx |-> 0, cy |-> 1000],
     focusKeyframes |-> << Keyframe(0, 0, 1000), Keyframe(200, 1000, 1000),
                           Keyframe(600, 1000, 0), Keyframe(800, 400, 0) >>] }

DomInit ==
  /\ domRegions = <<>>
  /\ dom = Null

AddDomRegion ==
  /\ Len(domRegions) < MaxRegions
  /\ \E r \in DomRegionPool :
       domRegions' = Append(domRegions, [id |-> ManualZoomId(Len(domRegions) + 1)] @@ r)
  /\ dom' = Null
  /\ UNCHANGED notDom

\* findDominantRegion(regions, timeMs), then the dominant region's focus at timeMs
Evaluate ==
  /\ \E timeMs \in TimeGrid :
       LET d == findDominantRegion(domRegions, timeMs)
       IN dom' = [timeMs |-> timeMs, region |-> d.region, strength |-> d.strength,
                  focus |-> IF d.region = Null THEN Null
                            ELSE interpolateFocusFromKeyframes(d.region, timeMs)]
  /\ UNCHANGED domRegions
  /\ UNCHANGED notDom

DomNext == AddDomRegion \/ Evaluate

(***************************************************************************)
(* Playback Transform Engine: src/components/video-editor/VideoPlayback.tsx *)
(* Scales, normalized coordinates and the blur are integers in units of    *)
(* 1/FP; pixel positions are in units of 1/FP pixel.  A product or         *)
(* quotient that is no whole number of units is truncated toward zero,     *)
(* where the code computes in floating point.                              *)
(***************************************************************************)
FP == 100 * 1000

PLAYBACK_TRANSITION_WINDOW_MS == 320

\* SMOOTHING_FACTOR = 0.12, in hundredths
SMOOTHING_FACTOR == 12

\* MIN_DELTA = 0.0001
MIN_DELTA == FP \div 10000

\* VIEWPORT_SCALE = 0.8, in hundredths
VIEWPORT_SCALE == 80

DEFAULT_FOCUS == [cx |-> FP \div 2, cy |-> FP \div 2]

\* ZOOM_DEPTH_SCALES of types.ts, in hundredths
ZoomDepthPercent == << 125, 150, 180, 220, 350, 500 >>

ZOOM_DEPTH_SCALES == [depth \in 1 .. 6 |-> ZoomDepthPercent[depth] * (FP \div 100)]

\* a \div b rounded toward zero
TruncDiv(a, b) == IF a >= 0 THEN a \div b ELSE -((-a) \div b)

\* a * b / FP for a, b >= 0, rounded down, without forming a * b
MulFPNat[a \in Nat, b \in Nat] ==
  (a \div FP) * b
    + (((a % FP) \div 1000) * b + (((a % FP) % 1000) * b) \div 1000) \div 100

\* a * b / FP rounded toward zero
MulFP[a \in Int, b \in Int] ==
  IF (a < 0) # (b < 0) THEN -MulFPNat[Abs(a), Abs(b)] ELSE MulFPNat[Abs(a), Abs(b)]

\* clamp01 of VideoPlayback.tsx
playbackClamp01(value) == Max(0, Min(FP, value))

\* smoothStep of VideoPlayback.tsx: clamped * clamped * (3 - 2 * clamped)
playbackSmoothStep(t) ==
  MulFP[MulFP[playbackClamp01(t), playbackClamp01(t)], 3 * FP - 2 * playbackClamp01(t)]

\* computeRegionStrength of VideoPlayback.tsx: window 320 ms, smoothStep
playbackRegionStrength(region, timeMs) ==
  LET leadInStart == region.startMs - PLAYBACK_TRANSITION_WINDOW_MS
      leadOutEnd == region.endMs + PLAYBACK_TRANSITION_WINDOW_MS
  IN IF timeMs < leadInStart \/ timeMs > leadOutEnd
     THEN 0
     ELSE LET fadeIn == playbackSmoothStep(((timeMs - leadInStart) * FP)
                                             \div PLAYBACK_TRANSITION_WINDOW_MS)
              fadeOut == playbackSmoothStep(((leadOutEnd - timeMs) * FP)
                                              \div PLAYBACK_TRANSITION_WINDOW_MS)
          IN Min(fadeIn, fadeOut)

\* the loop of findDominantRegion of VideoPlayback.tsx from region i on
RECURSIVE playbackDominantScan(_, _, _, _)
playbackDominantScan(regions, i, timeMs, best) ==
  IF i > Len(regions) THEN best
  ELSE playbackDominantScan(regions, i + 1, timeMs,
                            IF playbackRegionStrength(regions[i], timeMs) > best.strength
                            THEN [region |-> regions[i],
                                  strength |-> playbackRegionStrength(regions[i], timeMs)]
                            ELSE best)

playbackFindDominantRegion(regions, timeMs) ==
  playbackDominantScan(regions, 1, timeMs, [region |-> Null, strength |-> 0])

\* a region's focus (in NormScale units) in units of 1/FP
FocusFP(focus) ==
  [cx |-> focus.cx * (FP \div NormScale), cy |-> focus.cy * (FP \div NormScale)]

\* clampFocusToDepth of types.ts
clampFocusToDepth(focus, depth) ==
  [cx |-> Min(FP, Max(0, focus.cx)), cy |-> Min(FP, Max(0, focus.cy))]

\* !stageSize.width || !stageSize.height || !videoSize.width || !videoSize.height
\*   || baseScale <= 0
GeometryMissing(stage, video, base) ==
  \/ stage.width = 0 \/ stage.height = 0
  \/ video.width = 0 \/ video.height = 0
  \/ base <= 0

\* min and max of one axis of clampFocusToStage; extent is the video's and
\* stageExtent the stage's size along the axis
FocusRange(extent, stageExtent, depth, base) ==
  LET percent == ZoomDepthPercent[depth]
      scaled == extent * base
      indicator == (scaled \div percent) * 100 + ((scaled % percent) * 100) \div percent
      normalized == Min(FP, indicator \div stageExtent)
      margin == IF normalized >= FP THEN FP \div 2 ELSE normalized \div 2
  IN [min |-> margin, max |-> IF normalized >= FP THEN FP \div 2 ELSE FP - margin]

\* A faulty variant of clampFocusToStageAt: the focus is clamped into [0,1] only.
clampFocusToStageAtUnit(focus, depth, stage, video, base) ==
  clampFocusToDepth(focus, depth)

clampFocusToStageAt(focus, depth, stage, video, base) ==
  IF GeometryMissing(stage, video, base)
  THEN clampFocusToDepth(focus, depth)
  ELSE LET rx == FocusRange(video.width, stage.width, depth, base)
           ry == FocusRange(video.height, stage.height, depth, base)
           baseFocus == clampFocusToDepth(focus, depth)
       IN [cx |-> Min(rx.max, Max(rx.min, baseFocus.cx)),
           cy |-> Min(ry.max, Max(ry.min, baseFocus.cy))]

clampFocusToStage(focus, depth) ==
  clampFocusToStageAt(focus, depth, stageSize, videoSize, baseScale)

\* targetScaleFactor and targetFocus of ticker for the dominant region d
TargetFor(d) ==
  IF d.region # Null /\ d.strength > 0
  THEN LET regionFocus == clampFocusToStage(FocusFP(d.region.focus), d.region.depth)
       IN [region |-> d.region, strength |-> d.strength, regionFocus |-> regionFocus,
           scale |-> FP + MulFP[ZOOM_DEPTH_SCALES[d.region.depth] - FP, d.strength],
           cx |-> DEFAULT_FOCUS.cx + MulFP[regionFocus.cx - DEFAULT_FOCUS.cx, d.strength],
           cy |-> DEFAULT_FOCUS.cy + MulFP[regionFocus.cy - DEFAULT_FOCUS.cy, d.strength]]
  ELSE [region |-> d.region, strength |-> d.strength, regionFocus |-> Null,
        scale |-> FP, cx |-> DEFAULT_FOCUS.cx, cy |-> DEFAULT_FOCUS.cy]

\* the first part of ticker: the dominant region, targetScaleFactor and targetFocus
TickTarget(regions, timeMs) ==
  CHOOSE target \in {TargetFor(d) : d \in {playbackFindDominantRegion(regions, timeMs)}} : TRUE

\* A faulty variant of Smooth: the value never snaps to the target.
SmoothNoSnap(prev, target) == prev + TruncDiv((target - prev) * SMOOTHING_FACTOR, 100)

\* A faulty variant of Smooth: the step is longer than the way to the target.
SmoothOvershoot(prev, target) ==
  IF Abs(target - prev) > MIN_DELTA
  THEN prev + TruncDiv((target - prev) * (100 + SMOOTHING_FACTOR), 100)
  ELSE target

\* one axis of the smoothing step of ticker
Smooth(prev, target) ==
  IF Abs(target - prev) > MIN_DELTA
  THEN prev + TruncDiv((target - prev) * SMOOTHING_FACTOR, 100)
  ELSE target

\* A faulty variant of MotionBlur: the blur does not depend on playback.
MotionBlurUngated(playing, motionIntensity) ==
  IF motionIntensity > FP \div 2000 THEN Min(6 * FP, motionIntensity * 120) ELSE 0

\* the blur applyTransform sets
MotionBlur(playing, motionIntensity) ==
  IF playing /\ motionIntensity > FP \div 2000
  THEN Min(6 * FP, motionIntensity * 120)
  ELSE 0

\* A faulty variant of applyTransform: the geometry is not checked.
applyTransformUnguarded(motionIntensity, state) ==
  LET actualScale == MulFP[baseScale, state.scale]
      newVideoX == (stageSize.width * FP) \div 2
                     - MulFP[state.focusX * stageSize.width - baseOffset.x, state.scale]
      newVideoY == (stageSize.height * FP) \div 2
                     - MulFP[state.focusY * stageSize.height - baseOffset.y, state.scale]
      videoWidth == videoSize.width * actualScale
      videoHeight == videoSize.height * actualScale
  IN /\ sprite' = [scale |-> actualScale, x |-> newVideoX, y |-> newVideoY]
     /\ blur' = MotionBlur(isPlaying, motionIntensity)
     /\ mask' = [x |-> newVideoX, y |-> newVideoY, width |-> videoWidth,
                 height |-> videoHeight,
                 radius |-> (Min(videoWidth, videoHeight) * 2) \div 100]

\* A faulty variant of applyTransform: the sprite is scaled about its own
\* top-left corner, which stays at the base offset.
applyTransformAboutCorner(motionIntensity, state) ==
  IF GeometryMissing(stageSize, videoSize, baseScale)
  THEN UNCHANGED <<sprite, mask, blur>>
  ELSE
    LET actualScale == MulFP[baseScale, state.scale]
        videoWidth == videoSize.width * actualScale
        videoHeight == videoSize.height * actualScale
    IN /\ sprite' = [scale |-> actualScale, x |-> baseOffset.x, y |-> baseOffset.y]
       /\ blur' = MotionBlur(isPlaying, motionIntensity)
       /\ mask' = [x |-> baseOffset.x, y |-> baseOffset.y, width |-> videoWidth,
                   height |-> videoHeight,
                   radius |-> (Min(videoWidth, videoHeight) * 2) \div 100]

\* applyTransform(motionIntensity), with state the animation state just written
applyTransform(motionIntensity, state) ==
  IF GeometryMissing(stageSize, videoSize, baseScale)
  THEN UNCHANGED <<sprite, mask, blur>>
  ELSE
    LET actualScale == MulFP[baseScale, state.scale]
        newVideoX == (stageSize.width * FP) \div 2
                       - MulFP[state.focusX * stageSize.width - baseOffset.x, state.scale]
        newVideoY == (stageSize.height * FP) \div 2
                       - MulFP[state.focusY * stageSize.height - baseOffset.y, state.scale]
        videoWidth == videoSize.width * actualScale
        videoHeight == videoSize.height * actualScale
    IN /\ sprite' = [scale |-> actualScale, x |-> newVideoX, y |-> newVideoY]
       /\ blur' = MotionBlur(isPlaying, motionIntensity)
       /\ mask' = [x |-> newVideoX, y |-> newVideoY, width |-> videoWidth,
                   height |-> videoHeight,
                   radius |-> (Min(videoWidth, videoHeight) * 2) \div 100]

\* zoomRegionsRef.current.find((r) => r.id === regionId) ?? null
FindRegionById(regions, id) ==
  IF \E i \in 1 .. Len(regions) : regions[i].id = id
  THEN regions[CHOOSE i \in 1 .. Len(regions) :
                 /\ regions[i].id = id
                 /\ \A j \in 1 .. i - 1 : regions[j].id # id]
  ELSE Null

\* (videoSize / zoomScale) * baseScale along one axis, in 1/FP pixel
IndicatorExtent(extent, depth, base) ==
  LET percent == ZoomDepthPercent[depth]
      scaled == extent * base
  IN (scaled \div percent) * 100 + ((scaled % percent) * 100) \div percent

\* adjustedLeft / adjustedTop of updateOverlayForRegion, in 1/FP pixel
IndicatorOrigin(focus, stageExtent, indicator) ==
  IF indicator >= stageExtent * FP
  THEN TruncDiv(stageExtent * FP - indicator, 2)
  ELSE Max(0, Min(stageExtent * FP - indicator, focus * stageExtent - indicator \div 2))

\* updateOverlayForRegion(region, focus) with the overlay's client size and the
\* video size and base scale of the refs: the stage size and the styles it
\* leaves behind
updateOverlayForRegion(region, focus, size, video, base) ==
  IF region = Null \/ size.width = 0 \/ size.height = 0
  THEN [stageSize |-> stageSize,
        overlay |-> [focusOverlay EXCEPT !.indicator = Null, !.pointerEvents = "none"]]
  ELSE IF video.width = 0 \/ video.height = 0 \/ base <= 0
  THEN [stageSize |-> size,
        overlay |-> [focusOverlay EXCEPT !.indicator = Null,
                                         !.pointerEvents = IF isPlaying THEN "none"
                                                           ELSE "auto"]]
  ELSE LET at == clampFocusToStageAt(focus, region.depth, size, video, base)
           indicatorWidth == IndicatorExtent(video.width, region.depth, base)
           indicatorHeight == IndicatorExtent(video.height, region.depth, base)
       IN [stageSize |-> size,
           overlay |-> [focusOverlay EXCEPT
                          !.indicator = [left |-> IndicatorOrigin(at.cx, size.width,
                                                                  indicatorWidth),
                                         top |-> IndicatorOrigin(at.cy, size.height,
                                                                 indicatorHeight),
                                         width |-> indicatorWidth,
                                         height |-> indicatorHeight],
                          !.pointerEvents = IF isPlaying THEN "none" ELSE "auto"]]

\* ---- inputs of the model ----
\* videoElement.videoWidth / videoHeight
VideoNatural == [width |-> 2000, height |-> 1000]

\* container.clientWidth / clientHeight: not laid out yet, or laid out
ContainerSizes == { [width |-> 0, height |-> 0], [width |-> 1000, height |-> 500] }

\* playback times: the start, inside a lead-in, inside the regions, after them
PlaybackTimes == {0, 760, 2000, 3400}

\* an auto region whose keyframes move away from its focus
FollowRegion ==
  [id |-> AutoZoomId(1), startMs |-> 1000, endMs |-> 3000, depth |-> 3,
   focus |-> [cx |-> 200, cy |-> 700],
   focusKeyframes |-> << Keyframe(0, 200, 700), Keyframe(1000, 800, 300) >>]

\* a manual region that is at full strength when playback starts
EarlyRegion ==
  [id |-> ManualZoomId(1), startMs |-> 0, endMs |-> 2000, depth |-> 6,
   focus |-> [cx |-> 900, cy |-> 100]]

PlaybackRegionLists == { <<FollowRegion>>, <<EarlyRegion>>, <<EarlyRegion, FollowRegion>> }

\* layoutVideoContent() with the container's client size; the region list is
\* the one the refs hold when it runs
LayoutVideoContent(width, height) ==
  IF VideoNatural.width = 0 \/ VideoNatural.height = 0 \/ width = 0 \/ height = 0
  THEN UNCHANGED <<stageSize, videoSize, baseScale, baseOffset, sprite, mask, focusOverlay>>
  ELSE
    LET scale == Min(Min((width * VIEWPORT_SCALE * (FP \div 100)) \div VideoNatural.width,
                         (height * VIEWPORT_SCALE * (FP \div 100)) \div VideoNatural.height),
                     FP)
        displayWidth == VideoNatural.width * scale
        displayHeight == VideoNatural.height * scale
        offsetX == (width * FP - displayWidth) \div 2
        offsetY == (height * FP - displayHeight) \div 2
        activeRegion == IF selectedZoomId = Null THEN Null
                        ELSE FindRegionById(zoomRegions', selectedZoomId)
        shown == updateOverlayForRegion(
                   activeRegion,
                   IF activeRegion = Null THEN DEFAULT_FOCUS ELSE FocusFP(activeRegion.focus),
                   [width |-> width, height |-> height], VideoNatural, scale)
    IN /\ sprite' = [scale |-> scale, x |-> offsetX, y |-> offsetY]
       /\ focusOverlay' = shown.overlay
       /\ stageSize' = [width |-> width, height |-> height]
       /\ videoSize' = VideoNatural
       /\ baseScale' = scale
       /\ baseOffset' = [x |-> offsetX, y |-> offsetY]
       /\ mask' = [x |-> offsetX, y |-> offsetY, width |-> displayWidth,
                   height |-> displayHeight,
                   radius |-> (Min(displayWidth, displayHeight) * 2) \div 100]

EngineInit ==
  /\ animationState = [scale |-> FP, focusX |-> DEFAULT_FOCUS.cx, focusY |-> DEFAULT_FOCUS.cy]
  /\ stageSize = [width |-> 0, height |-> 0]
  /\ videoSize = [width |-> 0, height |-> 0]
  /\ baseScale = FP
  /\ baseOffset = [x |-> 0, y |-> 0]
  /\ sprite = Null
  /\ mask = Null
  /\ blur = 0
  /\ isPlaying = FALSE
  /\ currentTime = 0
  /\ zoomRegions = <<>>
  /\ container = [width |-> 0, height |-> 0]
  /\ tickerAdded = FALSE
  /\ lastTick = Null
  /\ inputChanges = 0

\* The effects that run once Pixi and the video are ready: the sprite, the
\* mask and the blur filter are created, the animation state is reset, the
\* content is laid out, and the ticker is added.
Mount ==
  /\ ~tickerAdded
  /\ \E size \in ContainerSizes, regions \in PlaybackRegionLists :
       /\ container' = size
       /\ zoomRegions' = regions
       /\ IF size.width = 0 \/ size.height = 0
          THEN /\ sprite' = [scale |-> FP, x |-> 0, y |-> 0]
               /\ mask' = [x |-> 0, y |-> 0, width |-> 0, height |-> 0, radius |-> 0]
               /\ UNCHANGED <<stageSize, videoSize, baseScale, baseOffset, focusOverlay>>
          ELSE LayoutVideoContent(size.width, size.height)
  /\ animationState' = [scale |-> FP, focusX |-> DEFAULT_FOCUS.cx, focusY |-> DEFAULT_FOCUS.cy]
  /\ blur' = 0
  /\ tickerAdded' = TRUE
  /\ UNCHANGED <<isPlaying, currentTime, lastTick, inputChanges>>
  /\ UNCHANGED notShown
  /\ UNCHANGED notEngine

\* the ResizeObserver callback: the container has a new size
Resize ==
  /\ tickerAdded
  /\ inputChanges < MaxInputChanges
  /\ inputChanges' = inputChanges + 1
  /\ UNCHANGED <<animationState, blur, isPlaying, currentTime, zoomRegions, tickerAdded,
                 lastTick>>
  /\ \E size \in ContainerSizes \ {container} :
       /\ container' = size
       /\ LayoutVideoContent(size.width, size.height)
  /\ UNCHANGED notShown
  /\ UNCHANGED notEngine

\* emitTime: currentTimeRef.current = timeValue * 1000
EmitTime ==
  /\ tickerAdded
  /\ inputChanges < MaxInputChanges
  /\ inputChanges' = inputChanges + 1
  /\ \E t \in PlaybackTimes \ {currentTime} : currentTime' = t
  /\ UNCHANGED <<animationState, stageSize, videoSize, baseScale, baseOffset, sprite, mask,
                 blur, isPlaying, zoomRegions, container, tickerAdded, lastTick>>
  /\ UNCHANGED dragVars
  /\ UNCHANGED notEngine

\* handlePlay / handlePause: isPlayingRef.current = true / false
SetPlaying ==
  /\ tickerAdded
  /\ inputChanges < MaxInputChanges
  /\ inputChanges' = inputChanges + 1
  /\ isPlaying' = ~isPlaying
  /\ UNCHANGED <<animationState, stageSize, videoSize, baseScale, baseOffset, sprite, mask,
                 blur, currentTime, zoomRegions, container, tickerAdded, lastTick>>
  /\ UNCHANGED dragVars
  /\ UNCHANGED notEngine

\* the second part of ticker: the animation state smoothed toward the target
SmoothedState(state, target) ==
  [scale |-> Smooth(state.scale, target.scale),
   focusX |-> Smooth(state.focusX, target.cx),
   focusY |-> Smooth(state.focusY, target.cy)]

MotionIntensity(prev, next) ==
  Max(Max(Abs(next.scale - prev.scale), Abs(next.focusX - prev.focusX)),
      Abs(next.focusY - prev.focusY))

\* ticker: one rendered frame
Tick ==
  /\ tickerAdded
  /\ \E target \in {TickTarget(zoomRegions, currentTime)} :
       \E next \in {SmoothedState(animationState, target)} :
         \E motionIntensity \in {MotionIntensity(animationState, next)} :
           /\ animationState' = next
           /\ applyTransform(motionIntensity, next)
           /\ lastTick' = [timeMs |-> currentTime, target |-> target,
                           prev |-> animationState,
                           motionIntensity |-> motionIntensity,
                           applied |-> ~GeometryMissing(stageSize, videoSize, baseScale)]
  /\ UNCHANGED <<stageSize, videoSize, baseScale, baseOffset, isPlaying, currentTime,
                 zoomRegions, container, tickerAdded, inputChanges>>
  /\ UNCHANGED dragVars
  /\ UNCHANGED notEngine

EngineNext == Mount \/ Resize \/ EmitTime \/ SetPlaying \/ Tick

(***************************************************************************)
(* clampFocusToStage of VideoPlayback.tsx as a function of its focus, its  *)
(* depth and the geometry it reads from the refs.                          *)
(***************************************************************************)
\* focus coordinates, in units of 1/FP: below 0, 0, 0.2, 0.5, 0.9, 1, above 1
FocusGrid == { -(FP \div 10), 0, FP \div 5, FP \div 2, 9 * (FP \div 10), FP, 12 * (FP \div 10) }

\* stageSizeRef, videoSizeRef and baseScaleRef: nothing laid out yet; the
\* layout of a 1000 x 500 container; a stage smaller than the scaled video
ClampGeometries ==
  { [stage |-> [width |-> 0, height |-> 0], video |-> [width |-> 0, height |-> 0],
     base |-> FP],
    [stage |-> [width |-> 1000, height |-> 500], video |-> VideoNatural,
     base |-> 4 * (FP \div 10)],
    [stage |-> [width |-> 400, height |-> 300], video |-> VideoNatural,
     base |-> 4 * (FP \div 10)] }

ClampInit == stageClamp = Null

\* clampFocusToStage(focus, depth) with the refs holding geometry g
ClampFocus ==
  /\ \E cx \in FocusGrid, cy \in FocusGrid, depth \in 1 .. 6, g \in ClampGeometries :
       stageClamp' = [focus |-> [cx |-> cx, cy |-> cy], depth |-> depth,
                      stage |-> g.stage, video |-> g.video, base |-> g.base,
                      result |-> clampFocusToStageAt([cx |-> cx, cy |-> cy], depth,
                                                     g.stage, g.video, g.base)]
  /\ UNCHANGED notClamp

\* clampFocusToStage applied to the focus it returned, with the same refs
ClampResult ==
  /\ stageClamp # Null
  /\ stageClamp' = [stageClamp EXCEPT
                      !.focus = stageClamp.result,
                      !.result = clampFocusToStageAt(stageClamp.result, stageClamp.depth,
                                   stageClamp.stage, stageClamp.video, stageClamp.base)]
  /\ UNCHANGED notClamp

ClampNext == ClampFocus \/ ClampResult

(***************************************************************************)
(* Cursor event storage: store-cursor-events / load-cursor-events of       *)
(* electron/ipc/handlers.ts.                                               *)
(*                                                                         *)
(* A file name is a sequence of pieces whose last piece is its extension;  *)
(* a path is a file name with the directory in front.  JSON text is        *)
(* modelled per value: a number becomes its sign, the decimal digits of    *)
(* its whole part and its fractional part in lowest terms, and is parsed   *)
(* back from them; a string stays a string; an absent field stays absent.  *)
(***************************************************************************)
RECORDINGS_DIR == "recordings/"

VideoExtensions == {".webm", ".mp4"}

\* videoFileName.replace(/\.(webm|mp4)$/, '-cursor-events.json')
ReplaceVideoExtension(name) ==
  IF Len(name) > 0 /\ name[Len(name)] \in VideoExtensions
  THEN Append(SubSeq(name, 1, Len(name) - 1), "-cursor-events.json")
  ELSE name

\* path.join(RECORDINGS_DIR, fileName)
JoinRecordingsDir(fileName) == <<RECORDINGS_DIR>> \o fileName

\* the decimal digits of a natural number, most significant first
RECURSIVE DecimalDigits(_)
DecimalDigits(n) ==
  IF n < 10 THEN <<n>> ELSE Append(DecimalDigits(n \div 10), n % 10)

\* the natural number a digit sequence denotes
RECURSIVE DigitsValue(_)
DigitsValue(digits) ==
  IF Len(digits) = 0 THEN 0
  ELSE 10 * DigitsValue(SubSeq(digits, 1, Len(digits) - 1)) + digits[Len(digits)]

NumberKeys == {"timestamp", "x", "y", "normalizedX", "normalizedY", "button", "scrollDelta"}

FractionKeys == {"normalizedX", "normalizedY"}

\* the value of a CursorEvent's number field as a fraction
FieldNumber(key, value) == IF key \in FractionKeys THEN value ELSE Frac(value, 1)

\* A faulty variant of StringifyNumber: the sign is lost.
StringifyNumberUnsigned(q) ==
  [json |-> "number", negative |-> FALSE,
   digits |-> DecimalDigits(Abs(q.n) \div q.d),
   fraction |-> FracReduce(Frac(Abs(q.n) % q.d, q.d))]

\* JSON.stringify of a finite number
StringifyNumber(q) ==
  LET whole == Abs(q.n) \div q.d
      rest == FracReduce(Frac(Abs(q.n) % q.d, q.d))
  IN [json |-> "number", negative |-> (q.n < 0),
      digits |-> DecimalDigits(whole), fraction |-> rest]

\* JSON.parse of a number
ParseNumber(text) ==
  LET magnitude == Frac(DigitsValue(text.digits) * text.fraction.d + text.fraction.n,
                        text.fraction.d)
  IN IF text.negative THEN Frac(-magnitude.n, magnitude.d) ELSE magnitude

\* JSON.stringify of one event: every own property, by key
StringifyEvent(e) ==
  [key \in DOMAIN e |->
     IF key \in NumberKeys THEN StringifyNumber(FieldNumber(key, e[key]))
     ELSE [json |-> "string", chars |-> e[key]]]

\* JSON.stringify(events, null, 2)
JsonStringify(evts) == [json |-> "array", items |-> [i \in 1 .. Len(evts) |-> StringifyEvent(evts[i])]]

ParseEvent(text) ==
  [key \in DOMAIN text |->
     IF text[key].json = "number" THEN ParseNumber(text[key]) ELSE text[key].chars]

\* JSON.parse(data)
JsonParse(data) == [i \in 1 .. Len(data.items) |-> ParseEvent(data.items[i])]

\* events as the tracker produces them
StoredEventPool ==
  { [type |-> "move", timestamp |-> 1250, x |-> -40, y |-> 25,
     normalizedX |-> Frac(40, 80), normalizedY |-> Frac(15, 40)],
    [type |-> "click", timestamp |-> 1250, x |-> 30, y |-> 20,
     normalizedX |-> Frac(30, 100), normalizedY |-> Frac(20, 50), button |-> 1],
    [type |-> "scroll", timestamp |-> 0, x |-> 130, y |-> -5,
     normalizedX |-> Frac(100, 100), normalizedY |-> Frac(0, 50), scrollDelta |-> -3] }

StoredEventLists ==
  UNION { [1 .. n -> StoredEventPool] : n \in 0 .. MaxStoredEvents }

VideoFileNames ==
  { <<"recording-1", ".webm">>, <<"recording-1", ".mp4">>, <<"clip", ".mov">> }

\* the content of the file at path, or Null
FileAt(files, path) ==
  IF \E f \in files : f.path = path
  THEN (CHOOSE f \in files : f.path = path).data
  ELSE Null

\* fs.writeFile(path, data)
WriteFile(files, path, data) ==
  {f \in files : f.path # path} \cup {[path |-> path, data |-> data]}

StorageInit ==
  /\ recordingFiles = {}
  /\ lastStore = Null
  /\ lastLoad = Null
  /\ stores = 0

\* ipcMain.handle('store-cursor-events', ...); writeFails: fs.writeFile rejects
StoreCursorEvents(evts, videoFileName, writeFails) ==
  /\ stores < MaxStores
  /\ stores' = stores + 1
  /\ \E eventsPath \in {JoinRecordingsDir(ReplaceVideoExtension(videoFileName))} :
       IF writeFails
       THEN /\ lastStore' = [events |-> evts, videoFileName |-> videoFileName,
                            success |-> FALSE]
            /\ UNCHANGED recordingFiles
       ELSE /\ recordingFiles' = WriteFile(recordingFiles, eventsPath, JsonStringify(evts))
            /\ lastStore' = [events |-> evts, videoFileName |-> videoFileName,
                            success |-> TRUE, path |-> eventsPath]
  /\ lastLoad' = Null
  /\ UNCHANGED notStorage

\* A faulty variant of NoCursorEvents: the error of fs.readFile is handed on.
NoCursorEventsRejects(error) == [rejected |-> TRUE, error |-> error]

\* the catch block of load-cursor-events
NoCursorEvents(error) == [success |-> FALSE, events |-> <<>>]

\* ipcMain.handle('load-cursor-events', ...); fs.readFile rejects when there
\* is no file at eventsPath
LoadCursorEvents(videoPath) ==
  /\ \E eventsPath \in {ReplaceVideoExtension(videoPath)} :
       \E data \in {FileAt(recordingFiles, eventsPath)} :
          lastLoad' = [videoPath |-> videoPath, eventsPath |-> eventsPath]
                        @@ IF data = Null
                           THEN NoCursorEvents("ENOENT")
                           ELSE [success |-> TRUE, events |-> JsonParse(data)]
  /\ UNCHANGED <<recordingFiles, lastStore, stores>>
  /\ UNCHANGED notStorage

StorageNext ==
  \/ \E evts \in StoredEventLists, name \in VideoFileNames, writeFails \in BOOLEAN :
        StoreCursorEvents(evts, name, writeFails)
  \/ \E name \in VideoFileNames : LoadCursorEvents(JoinRecordingsDir(name))

(***************************************************************************)
(* Cursor overlay: getCursorPositionAtTime of                              *)
(* src/components/video-editor/CursorOverlay.tsx.  Normalised coordinates  *)
(* of events are in units of 1/NormScale; the returned position is an      *)
(* exact fraction of those units.                                          *)
(***************************************************************************)
CLICK_WINDOW_MS == 300

\* A faulty variant of CursorScan: the first event at or before timeMs stays the
\* bracketing one.
RECURSIVE CursorScanFirstBefore(_, _, _, _)
CursorScanFirstBefore(evts, i, timeMs, found) ==
  IF i > Len(evts) THEN found
  ELSE LET event == evts[i]
           click == IF event.type = "click"
                       /\ Abs(event.timestamp - timeMs) < CLICK_WINDOW_MS
                    THEN event ELSE found.clickEvent
       IN IF event.timestamp <= timeMs
          THEN CursorScanFirstBefore(evts, i + 1, timeMs,
                 [beforeEvent |-> IF found.beforeEvent = Null THEN event
                                  ELSE found.beforeEvent,
                  afterEvent |-> found.afterEvent, clickEvent |-> click])
          ELSE [beforeEvent |-> found.beforeEvent, afterEvent |-> event,
                clickEvent |-> click]

\* the for loop of getCursorPositionAtTime from event i on; it ends at the
\* first event later than timeMs (break)
RECURSIVE CursorScan(_, _, _, _)
CursorScan(evts, i, timeMs, found) ==
  IF i > Len(evts) THEN found
  ELSE LET event == evts[i]
           click == IF event.type = "click"
                       /\ Abs(event.timestamp - timeMs) < CLICK_WINDOW_MS
                    THEN event ELSE found.clickEvent
       IN IF event.timestamp <= timeMs
          THEN CursorScan(evts, i + 1, timeMs,
                 [beforeEvent |-> event, afterEvent |-> found.afterEvent,
                  clickEvent |-> click])
          ELSE IF found.afterEvent = Null
          THEN [beforeEvent |-> found.beforeEvent, afterEvent |-> event,
                clickEvent |-> click]
          ELSE CursorScan(evts, i + 1, timeMs,
                 [beforeEvent |-> found.beforeEvent, afterEvent |-> found.afterEvent,
                  clickEvent |-> click])

\* progress * progress * (3 - 2 * progress) for progress = n / d
SmoothProgress(n, d) == FracReduce(Frac(n * n * (3 * d - 2 * n), d * d * d))

\* from + (to - from) * smoothProgress
BlendCoordinate(from, to, smoothProgress) ==
  FracReduce(Frac(from * smoothProgress.d + (to - from) * smoothProgress.n,
                  smoothProgress.d))

\* getCursorPositionAtTime(cursorEvents, timeMs); Null is the result null
getCursorPositionAtTime(evts, timeMs) ==
  IF Len(evts) = 0 THEN Null
  ELSE
    LET found == CursorScan(evts, 1, timeMs,
                            [beforeEvent |-> Null, afterEvent |-> Null, clickEvent |-> Null])
        beforeEvent == found.beforeEvent
        afterEvent == found.afterEvent
        isClick == found.clickEvent # Null
    IN IF beforeEvent = Null /\ afterEvent # Null
       THEN [x |-> Frac(afterEvent.normalizedX, 1), y |-> Frac(afterEvent.normalizedY, 1),
             isClick |-> isClick]
       ELSE IF beforeEvent # Null /\ afterEvent = Null
       THEN [x |-> Frac(beforeEvent.normalizedX, 1), y |-> Frac(beforeEvent.normalizedY, 1),
             isClick |-> isClick]
       ELSE IF beforeEvent # Null /\ afterEvent # Null
       THEN LET timeDiff == afterEvent.timestamp - beforeEvent.timestamp
            IN IF timeDiff = 0
               THEN [x |-> Frac(beforeEvent.normalizedX, 1),
                     y |-> Frac(beforeEvent.normalizedY, 1), isClick |-> isClick]
               ELSE LET smoothProgress ==
                          SmoothProgress(timeMs - beforeEvent.timestamp, timeDiff)
                    IN [x |-> BlendCoordinate(beforeEvent.normalizedX,
                                              afterEvent.normalizedX, smoothProgress),
                        y |-> BlendCoordinate(beforeEvent.normalizedY,
                                              afterEvent.normalizedY, smoothProgress),
                        isClick |-> isClick]
       ELSE Null

\* ---- inputs of the model ----
OverlayTimestamps == {0, 100, 200, 500}

OverlayPoints == { <<200, 700>>, <<800, 300>> }

\* the times the overlay is drawn at
OverlayTimes == {-100, 0, 50, 100, 150, 200, 350, 500, 600}

OverlayInit ==
  /\ overlayEvents = <<>>
  /\ cursorAt = Null

\* one more event of the timestamp-ordered list the overlay is given
AddOverlayEvent ==
  /\ Len(overlayEvents) < MaxOverlayEvents
  /\ \E type \in {"move", "click"}, timestamp \in OverlayTimestamps, p \in OverlayPoints :
       /\ Len(overlayEvents) > 0 => overlayEvents[Len(overlayEvents)].timestamp <= timestamp
       /\ overlayEvents' = Append(overlayEvents,
                                  [type |-> type, timestamp |-> timestamp,
                                   normalizedX |-> p[1], normalizedY |-> p[2]])
  /\ cursorAt' = Null
  /\ UNCHANGED notOverlay

\* getCursorPositionAtTime(cursorEvents, currentTimeMs)
LocateCursor ==
  /\ \E timeMs \in OverlayTimes :
       \E result \in {getCursorPositionAtTime(overlayEvents, timeMs)} :
         cursorAt' = [timeMs |-> timeMs, result |-> result]
  /\ UNCHANGED overlayEvents
  /\ UNCHANGED notOverlay

OverlayNext == AddOverlayEvent \/ LocateCursor

(***************************************************************************)
(* The focus overlay of VideoPlayback.tsx: the pointer handlers that drag   *)
(* the selected region's focus.  The handlers read the refs of the playback *)
(* engine (isPlaying, zoomRegions, stageSize, videoSize, baseScale).  The   *)
(* overlay gets pointer events whatever its pointer-events style says: the  *)
(* style follows the isPlaying prop, which changes after handlePlay has set *)
(* isPlayingRef.                                                            *)
(***************************************************************************)
\* ---- inputs of the model ----
\* overlayEl.getBoundingClientRect(): the overlay fills the container
OverlayRect == [left |-> 100, top |-> 50, width |-> container.width,
                height |-> container.height]

\* clientX, clientY of the pointer: left of and above the overlay, inside it,
\* right of and below it
ClientPoints == { <<50, 20>>, <<300, 150>>, <<1500, 700>> }

\* the ids a selection can hold: none, or the id of a region that is or is not
\* in the list
SelectableIds == {Null, FollowRegion.id, EarlyRegion.id}

\* updateFocusFromClientPoint(clientX, clientY): the call of onZoomFocusChange
\* it makes (Null: none), and the stage size and the styles it leaves behind
updateFocusFromClientPoint(clientX, clientY) ==
  LET region == FindRegionById(zoomRegions, selectedZoomId)
      rect == OverlayRect
  IN IF selectedZoomId = Null \/ region = Null \/ rect.width = 0 \/ rect.height = 0
     THEN [emitted |-> Null, stageSize |-> stageSize, overlay |-> focusOverlay]
     ELSE LET stage == [width |-> rect.width, height |-> rect.height]
              unclampedFocus ==
                [cx |-> playbackClamp01(TruncDiv((clientX - rect.left) * FP, stage.width)),
                 cy |-> playbackClamp01(TruncDiv((clientY - rect.top) * FP, stage.height))]
              clampedFocus == clampFocusToStageAt(unclampedFocus, region.depth, stage,
                                                  videoSize, baseScale)
              shown == updateOverlayForRegion(region, clampedFocus, stage, videoSize,
                                              baseScale)
          IN [emitted |-> [id |-> region.id, focus |-> clampedFocus],
              stageSize |-> shown.stageSize, overlay |-> shown.overlay]

DragInit ==
  /\ isDraggingFocus = FALSE
  /\ selectedZoomId = Null
  /\ focusOverlay = [pointerEvents |-> "none", cursor |-> "default", indicator |-> Null]
  /\ lastPointer = [op |-> "init", emitted |-> Null]
  /\ inGesture = FALSE
  /\ pointerSteps = 0

\* what a pointer handler leaves alone
PointerFrame ==
  /\ pointerSteps < MaxPointerEvents
  /\ pointerSteps' = pointerSteps + 1
  /\ UNCHANGED <<animationState, videoSize, baseScale, baseOffset, sprite, mask, blur,
                 isPlaying, currentTime, zoomRegions, container, tickerAdded, lastTick,
                 inputChanges, selectedZoomId>>
  /\ UNCHANGED notDrag

\* handleOverlayPointerDown(event); onSelectZoom selects the region that is
\* selected already
HandleOverlayPointerDown(clientX, clientY) ==
  /\ PointerFrame
  /\ IF isPlaying \/ selectedZoomId = Null
        \/ FindRegionById(zoomRegions, selectedZoomId) = Null
     THEN /\ lastPointer' = [op |-> "down", emitted |-> Null]
          /\ UNCHANGED <<isDraggingFocus, inGesture, stageSize, focusOverlay>>
     ELSE \E update \in {updateFocusFromClientPoint(clientX, clientY)} :
            /\ isDraggingFocus' = TRUE
            /\ inGesture' = TRUE
            /\ stageSize' = update.stageSize
            /\ focusOverlay' = update.overlay
            /\ lastPointer' = [op |-> "down", emitted |-> update.emitted]

\* A faulty variant of HandleOverlayPointerMove: a move edits the focus whether
\* a drag is on or not.
HandleOverlayPointerMoveAlways(clientX, clientY) ==
  /\ PointerFrame
  /\ \E update \in {updateFocusFromClientPoint(clientX, clientY)} :
       /\ stageSize' = update.stageSize
       /\ focusOverlay' = update.overlay
       /\ lastPointer' = [op |-> "move", emitted |-> update.emitted]
  /\ UNCHANGED <<isDraggingFocus, inGesture>>

\* handleOverlayPointerMove(event)
HandleOverlayPointerMove(clientX, clientY) ==
  /\ PointerFrame
  /\ IF ~isDraggingFocus
     THEN /\ lastPointer' = [op |-> "move", emitted |-> Null]
          /\ UNCHANGED <<stageSize, focusOverlay>>
     ELSE \E update \in {updateFocusFromClientPoint(clientX, clientY)} :
            /\ stageSize' = update.stageSize
            /\ focusOverlay' = update.overlay
            /\ lastPointer' = [op |-> "move", emitted |-> update.emitted]
  /\ UNCHANGED <<isDraggingFocus, inGesture>>

\* endFocusDrag(event)
endFocusDrag(op) ==
  /\ PointerFrame
  /\ isDraggingFocus' = (IF ~isDraggingFocus THEN isDraggingFocus ELSE FALSE)
  /\ inGesture' = FALSE
  /\ lastPointer' = [op |-> op, emitted |-> Null]
  /\ UNCHANGED <<stageSize, focusOverlay>>

\* handleOverlayPointerUp(event)
HandleOverlayPointerUp == endFocusDrag("up")

\* handleOverlayPointerLeave(event)
HandleOverlayPointerLeave == endFocusDrag("leave")

\* the selectedZoomId prop changes: the effects that copy it to the ref, show
\* the selected region on the overlay and set the overlay's styles
SelectZoom(id) ==
  /\ pointerSteps < MaxPointerEvents
  /\ pointerSteps' = pointerSteps + 1
  /\ id # selectedZoomId
  /\ selectedZoomId' = id
  /\ \E selectedZoom \in {IF id = Null THEN Null ELSE FindRegionById(zoomRegions, id)} :
       \E shown \in {IF tickerAdded
                      THEN updateOverlayForRegion(
                             selectedZoom,
                             IF selectedZoom = Null THEN DEFAULT_FOCUS
                             ELSE FocusFP(selectedZoom.focus),
                             container, videoSize, baseScale)
                      ELSE [stageSize |-> stageSize, overlay |-> focusOverlay]} :
         /\ stageSize' = shown.stageSize
         /\ focusOverlay' =
              IF selectedZoom = Null
              THEN [shown.overlay EXCEPT !.cursor = "default", !.pointerEvents = "none"]
              ELSE [shown.overlay EXCEPT
                      !.cursor = IF isPlaying THEN "not-allowed" ELSE "grab",
                      !.pointerEvents = IF isPlaying THEN "none" ELSE "auto"]
  /\ lastPointer' = [op |-> "select", emitted |-> Null]
  /\ UNCHANGED <<isDraggingFocus, inGesture>>
  /\ UNCHANGED <<animationState, videoSize, baseScale, baseOffset, sprite, mask, blur,
                 isPlaying, currentTime, zoomRegions, container, tickerAdded, lastTick,
                 inputChanges>>
  /\ UNCHANGED notDrag

DragNext ==
  \/ Mount
  \/ SetPlaying
  \/ \E id \in SelectableIds : SelectZoom(id)
  \/ \E p \in ClientPoints : HandleOverlayPointerDown(p[1], p[2])
  \/ \E p \in ClientPoints : HandleOverlayPointerMove(p[1], p[2])
  \/ HandleOverlayPointerUp
  \/ HandleOverlayPointerLeave

(***************************************************************************)
(* Specifications.                                                         *)
(***************************************************************************)
Init ==
  /\ CaptureInit /\ SynthInit /\ MergeInit /\ DomInit /\ EngineInit
  /\ StorageInit /\ OverlayInit /\ ClampInit /\ DragInit

Next == CaptureNext

\* Cursor Event Capture and its IPC handlers
Spec == Init /\ [][Next]_vars

\* generateAutoZoomRegions applied to stored event streams
SpecSynth == Init /\ [][SynthNext]_vars

\* mergeZoomRegions applied to lists of auto and manual regions
SpecMerge == Init /\ [][MergeNext]_vars

\* findDominantRegion and interpolateFocusFromKeyframes applied to region lists
SpecDominance == Init /\ [][DomNext]_vars

\* the playback engine; Pixi's ticker calls ticker on every rendered frame
SpecEngine == Init /\ [][EngineNext]_vars /\ WF_vars(Tick)

\* store-cursor-events and load-cursor-events over the recordings directory
SpecStorage == Init /\ [][StorageNext]_vars

\* getCursorPositionAtTime applied to timestamp-ordered event lists
SpecOverlay == Init /\ [][OverlayNext]_vars

\* clampFocusToStage applied to focuses, depths and stage geometries
SpecClamp == Init /\ [][ClampNext]_vars

\* the focus overlay's pointer handlers, with selection and play state changing
SpecDrag == Init /\ [][DragNext]_vars

(***************************************************************************)
(* Claims about Cursor Event Capture (checked under Spec).                 *)
(***************************************************************************)

\* C8: MouseTracker.start called while the tracker is already running leaves
\* the event buffer, the active configuration, the frozen display bounds, the
\* running flag and the hook subscriptions as they were, and does not throw.
C8_RestartChangesNothing ==
  [][(isTracking /\ lastOp'.op = "start" /\ starts' = starts + 1)
       => /\ UNCHANGED <<events, config, displayBounds, isTracking, lastMoveTime>>
          /\ UNCHANGED <<listeners, hookStarted>>
          /\ lastOp'.threw = FALSE]_vars

\* C8 witness: a start request arrived while a session with a non-empty buffer
\* was running.
C8_Witness ==
  /\ lastOp.op = "start"
  /\ lastOp.wasTracking
  /\ isTracking
  /\ Len(events) > 0

\* C9: stop while running returns exactly the events accepted since the
\* matching start, in acceptance order, and leaves the tracker not running
\* with an empty buffer, no configuration and no display bounds; stop while
\* not running returns the empty sequence and changes no state.
C9_StopReturnsAndClears ==
  [][lastOp'.op = "stop"
       => /\ (lastOp' # lastOp => lastOp'.wasTracking = isTracking)
          /\ IF lastOp'.wasTracking
             THEN /\ lastOp'.ret = sessionLog
                  /\ isTracking' = FALSE
                  /\ events' = <<>>
                  /\ config' = Null
                  /\ displayBounds' = Null
             ELSE /\ lastOp'.ret = <<>>
                  /\ UNCHANGED <<trackerVars, hookVars>>]_vars

\* C9 witness: a stop ended a session that had accepted two different events.
C9_Witness ==
  /\ lastOp.op = "stop"
  /\ lastOp.wasTracking
  /\ Len(lastOp.ret) >= 2
  /\ lastOp.ret[1] # lastOp.ret[2]

InUnitInterval(f) == FracLeq(FracZero, f) /\ FracLeq(f, FracOne)

NormalizedBounded(seq) ==
  \A i \in 1 .. Len(seq) :
     InUnitInterval(seq[i].normalizedX) /\ InUnitInterval(seq[i].normalizedY)

\* C10: every event appended to the capture buffer or forwarded to the
\* callback has 0 <= normalizedX <= 1 and 0 <= normalizedY <= 1, also for raw
\* points outside the recorded display.
C10_NormalizedBounded ==
  /\ NormalizedBounded(events)
  /\ NormalizedBounded(currentCursorEvents)
  /\ NormalizedBounded(sessionLog)

\* C10 witness: the buffer holds an event whose raw point lies right of and
\* above the recorded display.
C10_Witness ==
  /\ displayBounds # Null
  /\ \E i \in 1 .. Len(events) :
        /\ events[i].x > displayBounds.x + displayBounds.width
        /\ events[i].y < displayBounds.y
        /\ FracEq(events[i].normalizedX, FracOne)
        /\ FracEq(events[i].normalizedY, FracZero)

\* C20: when the input hook fails while being stopped (it keeps running), stop
\* still returns every event captured so far and leaves the tracker not
\* running with an empty buffer and no configuration; a start that follows
\* begins a fresh session with an empty buffer.
C20_StopBestEffort ==
  /\ [][(isTracking /\ lastOp'.op = "stop" /\ hookStarted /\ hookStarted')
         => /\ lastOp'.ret = events
            /\ lastOp'.ret = sessionLog
            /\ currentCursorEvents' = events
            /\ isTracking' = FALSE
            /\ events' = <<>>
            /\ config' = Null
            /\ displayBounds' = Null
            /\ \A h \in HookEvents : listeners'[h] = 0]_vars
  /\ [][(lastOp.op = "stop" /\ lastOp.wasTracking /\ hookStarted
          /\ lastOp'.op = "start")
         => /\ lastOp'.wasTracking = FALSE
            /\ isTracking' = TRUE
            /\ events' = <<>>
            /\ sessionLog' = <<>>
            /\ currentCursorEvents' = <<>>
            /\ config' # Null]_vars

\* C20 witness: a stop during which the hook failed returned the two events of
\* its session and left the tracker stopped and empty.
C20_Witness ==
  /\ lastOp.op = "stop"
  /\ lastOp.wasTracking
  /\ hookStarted
  /\ Len(lastOp.ret) = 2
  /\ ~isTracking
  /\ events = <<>>
  /\ config = Null

\* the events of seq that are moves, in order
MovesOf(seq) == SelectSeq(seq, LAMBDA e : e.type = "move")

\* C11: any two consecutive accepted move events were accepted at wall-clock
\* times at least moveThrottleMs apart (inside a session their timestamps
\* differ by as much; across sessions the accepting call finds the last
\* accepted move at least that long ago), and every click and every scroll
\* delivered while the tracker runs is appended to the buffer and forwarded.
C11_MoveThrottling ==
  /\ [](\A i \in 1 .. (Len(MovesOf(sessionLog)) - 1) :
         MovesOf(sessionLog)[i + 1].timestamp - MovesOf(sessionLog)[i].timestamp
           >= moveThrottleMs)
  /\ [][(lastOp'.op = "mousemove" /\ deliveries' = deliveries + 1 /\ lastOp'.accepted)
         => /\ now - lastMoveTime >= moveThrottleMs
            /\ lastMoveTime' = now]_vars
  /\ [][(lastOp'.op \in {"mousedown", "wheel"} /\ deliveries' = deliveries + 1
           /\ isTracking)
         => /\ lastOp'.accepted
            /\ Len(events') = Len(events) + 1
            /\ events'[Len(events')].type
                 = (IF lastOp'.op = "mousedown" THEN "click" ELSE "scroll")
            /\ events'[Len(events')].timestamp = now - config.recordingStartTime
            /\ currentCursorEvents'
                 = Append(currentCursorEvents, events'[Len(events')])]_vars

\* C11 witness: a session accepted two moves exactly moveThrottleMs apart.
C11_Witness ==
  /\ isTracking
  /\ Len(MovesOf(sessionLog)) = 2
  /\ MovesOf(sessionLog)[2].timestamp - MovesOf(sessionLog)[1].timestamp = moveThrottleMs

\* a click was accepted at the same wall-clock time as the event before it
C11_ClickWitness ==
  /\ Len(sessionLog) = 2
  /\ sessionLog[2].type = "click"
  /\ sessionLog[2].timestamp = sessionLog[1].timestamp

C33_MirrorInStep ==
  isTracking => currentCursorEvents = events

\* C34: after a stop-mouse-tracking request has ended a session,
\* get-cursor-events returns that session's captured events until the next
\* start-mouse-tracking request, even if stop-mouse-tracking is requested
\* again while the tracker is not running.
C34_EventsSurviveStops ==
  (~isTracking /\ starts > 0) => currentCursorEvents = sessionLog

\* C35: if the input hook fails to start during MouseTracker.start, the
\* tracker is left not running with no handlers subscribed, so that a later
\* start request begins a session instead of being ignored as already
\* running.
C35_FailedStartLeavesStopped ==
  (lastOp.op = "start" /\ lastOp.threw)
    => ~isTracking /\ \A h \in HookEvents : listeners[h] = 0

\* C36: after any sequence of start and stop calls each of the three hook
\* handlers (move, click, wheel) is subscribed to the input hook exactly once
\* when the tracker is running and not at all when it is not running.
C36_SubscriptionsMatchRunning ==
  \A h \in HookEvents : listeners[h] = IF isTracking THEN 1 ELSE 0

\* C36 witness: a later session runs after a stop ended the one before it, and
\* its start subscribed each handler once.
C36_Witness ==
  /\ starts = MaxStarts
  /\ lastOp.op = "start"
  /\ ~lastOp.wasTracking
  /\ isTracking
  /\ \A h \in HookEvents : listeners[h] = 1

\* C36 witness: a start request that arrived while the tracker ran left the
\* handlers subscribed once.
C36_RestartWitness ==
  /\ lastOp.op = "start"
  /\ lastOp.wasTracking
  /\ \A h \in HookEvents : listeners[h] = 1

\* C36 witness: a stop has ended a session and no handler is subscribed.
C36_StoppedWitness ==
  /\ lastOp.op = "stop"
  /\ lastOp.wasTracking
  /\ \A h \in HookEvents : listeners[h] = 0

\* C37: a hook event delivered while the tracker is not running is neither
\* appended to the buffer nor forwarded to the callback, and the sequence that
\* an earlier stop returned is never changed by the events and the sessions
\* that come after it.
C37_NoCaptureOutsideSession ==
  /\ [][(~isTracking /\ deliveries' = deliveries + 1)
          => /\ events' = events
             /\ currentCursorEvents' = currentCursorEvents
             /\ UNCHANGED returned]_vars
  /\ [](returned # Null => returned.content = returned.atReturn)

\* C37 witness: a stop returned a captured event and the next session has
\* accepted an event of its own; the returned sequence still holds what it held.
C37_Witness ==
  /\ returned # Null
  /\ Len(returned.atReturn) > 0
  /\ ~returned.mirrored
  /\ isTracking
  /\ Len(events) > 0
  /\ returned.content = returned.atReturn

\* C37 witness: the hook has just emitted an event while the tracker was not
\* running, after a stop that returned a captured event.
C37_UnheardWitness ==
  /\ lastOp.op = "unheard"
  /\ ~isTracking
  /\ returned # Null
  /\ Len(returned.atReturn) > 0

(***************************************************************************)
(* Claims about the Auto-Zoom Region Synthesizer (checked under SpecSynth).*)
(***************************************************************************)
SeqMap(Op(_), seq) == [i \in 1 .. Len(seq) |-> Op(seq[i])]

TimestampOf(e) == e.timestamp

StartOf(r) == r.startMs

PrimaryClickTimes(stream) == SeqMap(TimestampOf, SelectSeq(stream, IsPrimaryClick))

HasKeyframes(r) == "focusKeyframes" \in DOMAIN r

\* the call of the debounce example: primary clicks at 0, 100 and 600,
\* minIntervalMs = 500 passed explicitly, the other settings at their
\* defaults, a video that holds every window
C1_Case ==
  /\ synth # Null
  /\ PrimaryClickTimes(cursorEvents) = <<0, 100, 600>>
  /\ synth.overrides = [minIntervalMs |-> 500]
  /\ MergedConfig(synth.overrides).zoomDurationMs = 2000
  /\ synth.videoDurationH >= H(600 + 2000)

\* C1 as stated: the call returns exactly two regions, starting at 0 and at
\* 600; only the click at 100 is dropped.
C1_TwoRegions ==
  C1_Case => SeqMap(StartOf, synth.regions) = <<0, 600>>

\* C1 as amended: the call returns exactly one region, [0, 2000]; the clicks at
\* 100 and at 600 are both dropped, because the debounce is measured from the
\* end of the last emitted zoom (2000), not from its start.
C1_OneRegion ==
  C1_Case => /\ Len(synth.regions) = 1
             /\ synth.regions[1].startMs = 0
             /\ synth.regions[1].endMs = 2000
             /\ synth.nextIdCounter = synth.counter + 1

\* C1 witness: the example's call has been made.
C1_Witness == C1_Case

\* the moves generateFocusKeyframes looks at for region r of the last call
WindowMoves(r) ==
  LET cfg == MergedConfig(synth.overrides)
      endH == Min(H(r.startMs + cfg.zoomDurationMs), synth.videoDurationH)
  IN SelectSeq(cursorEvents, LAMBDA e : e.type = "move" /\ InZoomWindow(e, r.startMs, endH))

\* the clamped position generateFocusKeyframes compares
EventPoint(e) == ClampedFocus(e)

\* every move of the window is closer than keyframeMinDistance to the focus
Stationary(r) ==
  LET d == MergedConfig(synth.overrides).keyframeMinDistance
  IN \A i \in 1 .. Len(WindowMoves(r)) :
        DistSq(EventPoint(WindowMoves(r)[i]), r.focus) < d * d

\* the last move of the window is at most 50 ms after the click, or closer
\* than half of keyframeMinDistance to the focus
LastMoveSettled(r) ==
  LET d == MergedConfig(synth.overrides).keyframeMinDistance
      moves == WindowMoves(r)
      last == moves[Len(moves)]
  IN Len(moves) > 0 =>
       \/ last.timestamp - r.startMs <= 50
       \/ 4 * DistSq(EventPoint(last), r.focus) < d * d

\* C3 as stated: a region whose window holds only moves closer than
\* keyframeMinDistance to the click's focus has no focusKeyframes.
C3_StationaryNoKeyframes ==
  synth # Null =>
    \A i \in 1 .. Len(synth.regions) :
       Stationary(synth.regions[i]) => ~HasKeyframes(synth.regions[i])

\* C3 as amended: such a region has no focusKeyframes provided the last move
\* of the window is at most 50 ms after the click or closer than half of
\* keyframeMinDistance to the focus (otherwise the trailing keyframe is added).
C3_SettledNoKeyframes ==
  synth # Null =>
    \A i \in 1 .. Len(synth.regions) :
       (Stationary(synth.regions[i]) /\ LastMoveSettled(synth.regions[i]))
          => ~HasKeyframes(synth.regions[i])

\* C3 witness: a region without keyframes whose window holds a move between
\* half and the whole of keyframeMinDistance away, followed more than 50 ms
\* after the click by a last move closer than half of it.
C3_Witness ==
  /\ synth # Null
  /\ \E i \in 1 .. Len(synth.regions) :
        LET r == synth.regions[i]
            moves == WindowMoves(r)
            d == MergedConfig(synth.overrides).keyframeMinDistance
        IN /\ Stationary(r)
           /\ LastMoveSettled(r)
           /\ ~HasKeyframes(r)
           /\ Len(moves) >= 2
           /\ 4 * DistSq(EventPoint(moves[1]), r.focus) >= d * d
           /\ moves[Len(moves)].timestamp - r.startMs > 50

\* C17: a call with starting counter c that returns k regions gives them the
\* ids auto-zoom-(c+1) ... auto-zoom-(c+k) in emission order and returns
\* nextIdCounter = c + k; in a chain of calls, each given the nextIdCounter of
\* the call before, no id is issued twice.
C17_FreshIds ==
  synth # Null =>
    /\ \A i \in 1 .. Len(synth.regions) :
          synth.regions[i].id = [prefix |-> "auto-zoom-", n |-> synth.counter + i]
    /\ synth.nextIdCounter = synth.counter + Len(synth.regions)
    /\ \A i, j \in 1 .. Len(synth.regions) :
          synth.regions[i].id = synth.regions[j].id => i = j
    /\ IdsOf(synth.regions) \cap synth.issued = {}

\* C17 witness: the second call of a chain that started at counter 4 returned
\* two regions after a first call that returned two.
C17_Witness ==
  /\ synth # Null
  /\ synth.calls = 2
  /\ synth.counter = 6
  /\ Cardinality(synth.issued) = 2
  /\ Len(synth.regions) = 2
  /\ synth.nextIdCounter = 8

\* the keyframe list of region r is well formed
KeyframesWellFormed(r) ==
  LET keyframes == r.focusKeyframes
  IN /\ Len(keyframes) >= 2
     /\ keyframes[1].timeOffsetMs = 0
     /\ keyframes[1].focus = r.focus
     /\ \A i \in 1 .. (Len(keyframes) - 1) :
           keyframes[i].timeOffsetMs <= keyframes[i + 1].timeOffsetMs
     /\ \A i \in 1 .. Len(keyframes) :
           /\ 0 <= keyframes[i].timeOffsetMs
           /\ keyframes[i].timeOffsetMs <= r.endMs - r.startMs
           /\ 0 <= keyframes[i].focus.cx /\ keyframes[i].focus.cx <= NormScale
           /\ 0 <= keyframes[i].focus.cy /\ keyframes[i].focus.cy <= NormScale

\* C18: every region returned for a timestamp-ordered stream that carries
\* focusKeyframes has at least 2 of them, the first at timeOffsetMs = 0 with
\* the region's focus, timeOffsetMs non-decreasing and between 0 and
\* endMs - startMs, and every keyframe focus inside [0,1] on both axes.
C18_KeyframeInvariant ==
  synth # Null =>
    \A i \in 1 .. Len(synth.regions) :
       "focusKeyframes" \in DOMAIN synth.regions[i] => KeyframesWellFormed(synth.regions[i])

\* C18 witness: a region that starts at a click outside [0,1] carries three
\* keyframes at different times.
C18_Witness ==
  /\ synth # Null
  /\ \E i \in 1 .. Len(synth.regions) :
        /\ "focusKeyframes" \in DOMAIN synth.regions[i]
        /\ Len(synth.regions[i].focusKeyframes) = 3
        /\ synth.regions[i].focusKeyframes[2].timeOffsetMs
             < synth.regions[i].focusKeyframes[3].timeOffsetMs
        /\ synth.regions[i].focus = [cx |-> 0, cy |-> NormScale]

\* the primary clicks of the stored stream, in stream order
PrimaryClicks == SelectSeq(cursorEvents, IsPrimaryClick)

\* primary click k is the first primary click with its timestamp
FirstAtItsTime(k) ==
  \A j \in 1 .. (k - 1) : PrimaryClicks[j].timestamp # PrimaryClicks[k].timestamp

\* primary click k was turned into a region of the result
TurnedIntoRegion(k) ==
  /\ FirstAtItsTime(k)
  /\ \E i \in 1 .. Len(synth.regions) :
        synth.regions[i].startMs = PrimaryClicks[k].timestamp

\* the regions of the result emitted before primary click k was visited
EmittedBefore(k) ==
  {i \in 1 .. Len(synth.regions) :
     \/ synth.regions[i].startMs < PrimaryClicks[k].timestamp
     \/ /\ synth.regions[i].startMs = PrimaryClicks[k].timestamp
        /\ ~FirstAtItsTime(k)}

\* the length, in half milliseconds, of the zoom window of primary click k
\* after clipping to the video
ClippedDurationH(k) ==
  Min(H(PrimaryClicks[k].timestamp + MergedConfig(synth.overrides).zoomDurationMs),
      synth.videoDurationH) - H(PrimaryClicks[k].timestamp)

\* primary click k comes at least minIntervalMs after the end of the region
\* emitted last before it, or no region was emitted before it
FarEnoughFromLast(k) ==
  \/ EmittedBefore(k) = {}
  \/ \E i \in EmittedBefore(k) :
        /\ \A j \in EmittedBefore(k) : j <= i
        /\ PrimaryClicks[k].timestamp - synth.regions[i].endMs
             >= MergedConfig(synth.overrides).minIntervalMs

\* C21: for a timestamp-ordered stream and minIntervalMs >= 0 the regions
\* returned by generateAutoZoomRegions are in ascending startMs order, every
\* two consecutive regions r1, r2 satisfy r2.startMs - r1.endMs >=
\* minIntervalMs (so they never overlap), and a primary click is turned into a
\* region exactly when it comes at least minIntervalMs after the end of the
\* previously emitted region (or no region was emitted before it) and its
\* clipped duration is at least 300 ms.
C21_DebounceSpacing ==
  synth # Null =>
    /\ \A i \in 1 .. (Len(synth.regions) - 1) :
          /\ synth.regions[i].startMs < synth.regions[i + 1].startMs
          /\ synth.regions[i + 1].startMs - synth.regions[i].endMs
               >= MergedConfig(synth.overrides).minIntervalMs
          /\ synth.regions[i].endMs <= synth.regions[i + 1].startMs
    /\ \A k \in 1 .. Len(PrimaryClicks) :
          TurnedIntoRegion(k) <=> (FarEnoughFromLast(k) /\ ClippedDurationH(k) >= H(300))

\* C21 witness: of three primary clicks the first and the third were turned
\* into regions and the second, too close to the end of the first region, was
\* not.
C21_Witness ==
  /\ synth # Null
  /\ Len(PrimaryClicks) = 3
  /\ Len(synth.regions) = 2
  /\ TurnedIntoRegion(1) /\ ~TurnedIntoRegion(2) /\ TurnedIntoRegion(3)
  /\ ~FarEnoughFromLast(2)
  /\ ClippedDurationH(2) >= H(300)

\* the primary click that region r was made from
ClickOf(r) ==
  CHOOSE k \in 1 .. Len(PrimaryClicks) :
     FirstAtItsTime(k) /\ PrimaryClicks[k].timestamp = r.startMs

\* C22: every region returned by generateAutoZoomRegions has startMs equal to
\* its click's timestamp, endMs = min(startMs + zoomDurationMs,
\* videoDurationMs), endMs - startMs >= 300, endMs <= videoDurationMs, the
\* configured depth, and the click's normalized coordinates clamped into
\* [0,1] as focus; a click whose clipped window is shorter than 300 ms
\* produces no region.
C22_RegionsWellFormed ==
  synth # Null =>
    /\ \A i \in 1 .. Len(synth.regions) :
          LET r == synth.regions[i]
              cfg == MergedConfig(synth.overrides)
          IN /\ \E k \in 1 .. Len(PrimaryClicks) : PrimaryClicks[k].timestamp = r.startMs
             /\ H(r.endMs) = Min(H(r.startMs + cfg.zoomDurationMs), synth.videoDurationH)
             /\ r.endMs - r.startMs >= 300
             /\ H(r.endMs) <= synth.videoDurationH
             /\ r.depth = cfg.zoomDepth
             /\ r.focus.cx = Max(0, Min(NormScale, PrimaryClicks[ClickOf(r)].normalizedX))
             /\ r.focus.cy = Max(0, Min(NormScale, PrimaryClicks[ClickOf(r)].normalizedY))
    /\ \A k \in 1 .. Len(PrimaryClicks) :
          ClippedDurationH(k) < H(300) => ~TurnedIntoRegion(k)

\* event e is a click with a button other than 1
OtherButtonClick(e) == e.type = "click" /\ "button" \in DOMAIN e /\ e.button # 1

\* the stored stream holds no click whose button is 1 or unspecified
NoQualifyingClick ==
  \A i \in 1 .. Len(cursorEvents) :
     cursorEvents[i].type = "click" => OtherButtonClick(cursorEvents[i])

\* the stored stream without its clicks of other buttons
WithoutOtherButtons == SelectSeq(cursorEvents, LAMBDA e : ~OtherButtonClick(e))

\* C23: when the stream is empty or holds no click whose button is 1 or
\* unspecified, generateAutoZoomRegions returns no region and nextIdCounter
\* equal to the starting counter; clicks of other buttons never start a
\* region and never affect the debounce of the primary clicks (the result is
\* the one the stream gives without them).
C23_NoQualifyingClicks ==
  synth # Null =>
    /\ NoQualifyingClick =>
          synth.regions = <<>> /\ synth.nextIdCounter = synth.counter
    /\ \A i \in 1 .. Len(synth.regions) :
          \E j \in 1 .. Len(cursorEvents) :
             /\ cursorEvents[j].type = "click"
             /\ ~OtherButtonClick(cursorEvents[j])
             /\ cursorEvents[j].timestamp = synth.regions[i].startMs
    /\ LET alone == generateAutoZoomRegions(WithoutOtherButtons, synth.videoDurationH,
                                            synth.counter, synth.overrides)
       IN synth.regions = alone.regions /\ synth.nextIdCounter = alone.nextIdCounter

\* C23 witness: a call with starting counter 4 on a stream of a move, a click
\* of button 2 and a scroll returned nothing and the counter 4.
C23_Witness ==
  /\ synth # Null
  /\ synth.counter = 4
  /\ NoQualifyingClick
  /\ \E i, j, k \in 1 .. Len(cursorEvents) :
        /\ OtherButtonClick(cursorEvents[i])
        /\ cursorEvents[j].type = "move"
        /\ cursorEvents[k].type = "scroll"
  /\ synth.regions = <<>>
  /\ synth.nextIdCounter = 4

\* C23 second witness: a click of button 2 between two primary clicks, inside
\* the window of the first, and both primary clicks became regions.
C23_DebounceWitness ==
  /\ synth # Null
  /\ Len(cursorEvents) = 3
  /\ IsPrimaryClick(cursorEvents[1])
  /\ OtherButtonClick(cursorEvents[2])
  /\ IsPrimaryClick(cursorEvents[3])
  /\ Len(synth.regions) = 2
  /\ cursorEvents[2].timestamp < synth.regions[1].endMs

\* the end of the zoom window of region r, in half milliseconds
WindowEndH(r) ==
  Min(H(r.startMs + MergedConfig(synth.overrides).zoomDurationMs), synth.videoDurationH)

\* the stored stream without the moves at or after the end of r's window
BeforeWindowEnd(r) ==
  SelectSeq(cursorEvents, LAMBDA e : ~(e.type = "move" /\ H(e.timestamp) >= WindowEndH(r)))

\* C30: the keyframes of a zoom window [start, end) come from the move events
\* with start <= timestamp < end only: a move whose timestamp equals end
\* contributes neither a sampled keyframe nor the trailing keyframe (the
\* region is the one the stream gives without that move, and no keyframe
\* lies at the window's end).
C30_HalfOpenWindow ==
  synth # Null =>
    \A i \in 1 .. Len(synth.regions) :
       LET r == synth.regions[i]
           keyframes == generateFocusKeyframes(BeforeWindowEnd(r), r.startMs, WindowEndH(r),
                                               r.focus, MergedConfig(synth.overrides))
       IN /\ HasKeyframes(r) <=> Len(keyframes) > 1
          /\ HasKeyframes(r) =>
                /\ r.focusKeyframes = keyframes
                /\ \A k \in 1 .. Len(r.focusKeyframes) :
                      H(r.startMs + r.focusKeyframes[k].timeOffsetMs) < WindowEndH(r)

(***************************************************************************)
(* Claims about Region Merge (checked under SpecMerge).                    *)
(***************************************************************************)
Count(x, seq) == Cardinality({i \in 1 .. Len(seq) : seq[i] = x})

SeqElems(seq) == {seq[i] : i \in 1 .. Len(seq)}

\* no manual region m has a.startMs < m.endMs and a.endMs > m.startMs
ClearOfManual(a) ==
  ~(\E j \in 1 .. Len(manualRegions) :
       a.startMs < manualRegions[j].endMs /\ a.endMs > manualRegions[j].startMs)

\* C4: the result holds exactly every manual region plus every auto region
\* that overlaps no manual region (touching at a boundary is no overlap),
\* sorted by startMs ascending; an overlapping auto region never appears.
C4_MergePrecedence ==
  merged # Null =>
    LET res == merged.result
    IN /\ \A i \in 1 .. Len(manualRegions) :
             Count(manualRegions[i], res) = Count(manualRegions[i], manualRegions)
       /\ \A i \in 1 .. Len(autoRegions) :
             Count(autoRegions[i], res) =
               IF ClearOfManual(autoRegions[i]) THEN Count(autoRegions[i], autoRegions) ELSE 0
       /\ SeqElems(res) \subseteq SeqElems(manualRegions) \cup SeqElems(autoRegions)
       /\ \A i \in 1 .. Len(res) - 1 : res[i].startMs <= res[i + 1].startMs

\* C4 witness: one auto region was dropped for overlapping a manual region and
\* another, which only touches a manual region's boundary, was kept.
C4_Witness ==
  /\ merged # Null
  /\ \E i, k \in 1 .. Len(autoRegions), j \in 1 .. Len(manualRegions) :
        /\ autoRegions[i].endMs = manualRegions[j].startMs
        /\ Count(autoRegions[i], merged.result) = 1
        /\ ~ClearOfManual(autoRegions[k])
        /\ Count(autoRegions[k], merged.result) = 0

C2_Case ==
  /\ Len(domRegions) = 1
  /\ domRegions[1].startMs = 1000
  /\ domRegions[1].endMs = 3000

Partial(f) == FracLess(FracZero, f) /\ FracLess(f, FracOne)

\* C2 as stated: for the single region [1000, 3000] and W = 400 the strength
\* is 0 at t = 600, strictly between 0 and 1 at t = 1000, exactly 1 at
\* t = 2000 and 0 at t = 3400.
C2_PartialAtStart ==
  (C2_Case /\ dom # Null) =>
     /\ dom.timeMs = 600 => FracEq(dom.strength, FracZero)
     /\ dom.timeMs = 1000 => Partial(dom.strength)
     /\ dom.timeMs = 2000 => FracEq(dom.strength, FracOne)
     /\ dom.timeMs = 3400 => FracEq(dom.strength, FracZero)

\* C2 as amended: the strength is 0 at t = 600, strictly between 0 and 1 for
\* 600 < t < 1000 (exactly 1/2 at t = 800), exactly 1 at t = 1000 and at
\* t = 2000, and 0 at t = 3400.
C2_FullAtStart ==
  (C2_Case /\ dom # Null) =>
     /\ dom.timeMs = 600 => FracEq(dom.strength, FracZero)
     /\ (600 < dom.timeMs /\ dom.timeMs < 1000) => Partial(dom.strength)
     /\ dom.timeMs = 800 => FracEq(dom.strength, Frac(1, 2))
     /\ dom.timeMs = 1000 => FracEq(dom.strength, FracOne)
     /\ dom.timeMs = 2000 => FracEq(dom.strength, FracOne)
     /\ dom.timeMs = 3400 => FracEq(dom.strength, FracZero)

\* C2 witness: the strength of the single region [1000, 3000] was evaluated
\* at the region's start.
C2_Witness == C2_Case /\ dom # Null /\ dom.timeMs = 1000

\* the indices of the evaluated region's keyframes
EvaluatedKeyframes ==
  IF dom # Null /\ dom.region # Null /\ "focusKeyframes" \in DOMAIN dom.region
  THEN 1 .. Len(dom.region.focusKeyframes)
  ELSE {}

\* the evaluated region has keyframes and the evaluation time is the time of
\* its keyframe number i
AtKnot(i) ==
  /\ dom # Null
  /\ dom.region # Null
  /\ "focusKeyframes" \in DOMAIN dom.region
  /\ i \in 1 .. Len(dom.region.focusKeyframes)
  /\ dom.timeMs = dom.region.startMs + dom.region.focusKeyframes[i].timeOffsetMs

StrengthOf(i) == computeRegionStrength(domRegions[i], dom.timeMs)

\* the regions of the evaluated list whose strength is the returned one
Strongest == {i \in 1 .. Len(domRegions) : FracEq(StrengthOf(i), dom.strength)}

\* C14: findDominantRegion returns a strength in [0,1] that is the maximum of
\* computeRegionStrength over the list, with the first region in list order
\* that attains it; when no region has strength above 0 (an empty list too)
\* it returns no region and strength 0.
C14_DominantSelection ==
  dom # Null =>
    /\ FracLeq(FracZero, dom.strength) /\ FracLeq(dom.strength, FracOne)
    /\ \A i \in 1 .. Len(domRegions) : FracLeq(StrengthOf(i), dom.strength)
    /\ IF \E i \in 1 .. Len(domRegions) : FracLess(FracZero, StrengthOf(i))
       THEN /\ Strongest # {}
            /\ dom.region = domRegions[CHOOSE i \in Strongest : \A j \in Strongest : i <= j]
       ELSE /\ dom.region = Null
            /\ FracEq(dom.strength, FracZero)

\* C14 witness: two different regions are equally strong, partially, at the
\* evaluated time, and the first of the list was returned.
C14_Witness ==
  /\ dom # Null
  /\ Len(domRegions) = 2
  /\ domRegions[1].startMs # domRegions[2].startMs
  /\ Strongest = {1, 2}
  /\ FracLess(FracZero, dom.strength) /\ FracLess(dom.strength, FracOne)
  /\ dom.region = domRegions[1]

\* every keyframe focus of region r has cx and cy in [0,1]
KeyframesNormalized(r) ==
  \A i \in 1 .. Len(r.focusKeyframes) :
     /\ 0 <= r.focusKeyframes[i].focus.cx /\ r.focusKeyframes[i].focus.cx <= NormScale
     /\ 0 <= r.focusKeyframes[i].focus.cy /\ r.focusKeyframes[i].focus.cy <= NormScale

\* fraction f of 1/NormScale units lies in [0,1]
Normalized(f) == FracLeq(FracZero, f) /\ FracLeq(f, Frac(NormScale, 1))

\* C28: for a region whose keyframe focuses all have cx and cy in [0,1] and
\* every playback time, interpolateFocusFromKeyframes returns a focus with cx
\* and cy in [0,1].
C28_InterpolatedFocusNormalized ==
  (dom # Null /\ dom.region # Null /\ "focusKeyframes" \in DOMAIN dom.region
     /\ KeyframesNormalized(dom.region))
    => Normalized(dom.focus.cx) /\ Normalized(dom.focus.cy)

\* the strength that VideoPlayback.tsx computes for region number i of the
\* evaluated list at the evaluated time
PlaybackStrengthOf(i) == playbackRegionStrength(domRegions[i], dom.timeMs)

\* t lies in one of the open transition windows (startMs - W, startMs) and
\* (endMs, endMs + W) of the region
InOpenWindow(region, t, W) ==
  \/ region.startMs - W < t /\ t < region.startMs
  \/ region.endMs < t /\ t < region.endMs + W

\* C38: for every region with startMs <= endMs and every time t with
\* startMs <= t <= endMs computeRegionStrength returns exactly 1, and it
\* returns a strength strictly between 0 and 1 only for t in the open
\* transition windows (startMs - W, startMs) and (endMs, endMs + W); in
\* zoomRegionUtils.ts (W = 400) and in VideoPlayback.tsx (W = 320) alike.
C38_FullStrengthInside ==
  dom # Null =>
    \A i \in 1 .. Len(domRegions) :
       domRegions[i].startMs <= domRegions[i].endMs =>
         /\ (domRegions[i].startMs <= dom.timeMs /\ dom.timeMs <= domRegions[i].endMs)
              => /\ FracEq(StrengthOf(i), FracOne)
                 /\ PlaybackStrengthOf(i) = FP
         /\ Partial(StrengthOf(i))
              => InOpenWindow(domRegions[i], dom.timeMs, TRANSITION_WINDOW_MS)
         /\ (0 < PlaybackStrengthOf(i) /\ PlaybackStrengthOf(i) < FP)
              => InOpenWindow(domRegions[i], dom.timeMs, PLAYBACK_TRANSITION_WINDOW_MS)

\* C38 witness: at the evaluated time one region of the list is at its end
\* with full strength and another is inside its lead-in with a partial one.
C38_Witness ==
  /\ dom # Null
  /\ \E i, j \in 1 .. Len(domRegions) :
       /\ dom.timeMs = domRegions[i].endMs
       /\ FracEq(StrengthOf(i), FracOne)
       /\ PlaybackStrengthOf(i) = FP
       /\ Partial(StrengthOf(j))
       /\ 0 < PlaybackStrengthOf(j) /\ PlaybackStrengthOf(j) < FP
       /\ dom.timeMs < domRegions[j].startMs

\* C38 witness: a region of no length has full strength at its one moment.
C38_PointWitness ==
  /\ dom # Null
  /\ \E i \in 1 .. Len(domRegions) :
       /\ domRegions[i].startMs = domRegions[i].endMs
       /\ dom.timeMs = domRegions[i].startMs
       /\ FracEq(StrengthOf(i), FracOne)
       /\ PlaybackStrengthOf(i) = FP

(***************************************************************************)
(* Claims about the Playback Transform Engine (checked under SpecEngine).  *)
(***************************************************************************)
\* what a tick's target depends on
targetInputs == <<zoomRegions, currentTime, stageSize, videoSize, baseScale>>

\* the target a tick computes in the current state
CurrentTarget == TickTarget(zoomRegions, currentTime)

AtTarget ==
  animationState = [scale |-> CurrentTarget.scale, focusX |-> CurrentTarget.cx,
                    focusY |-> CurrentTarget.cy]

Near(value, target) == Abs(target - value) <= MIN_DELTA

\* C5: once the target stays constant, scale, focusX and focusY reach it for
\* good after finitely many ticks; a tick that starts with a value within
\* MIN_DELTA of its target sets it exactly to the target; and a state at the
\* target stays there on every later tick while the target is the same.
C5_Convergence ==
  /\ (<>[][UNCHANGED targetInputs]_vars) => <>[]AtTarget
  /\ [][Tick => /\ Near(animationState.scale, CurrentTarget.scale)
                     => animationState'.scale = CurrentTarget.scale
                /\ Near(animationState.focusX, CurrentTarget.cx)
                     => animationState'.focusX = CurrentTarget.cx
                /\ Near(animationState.focusY, CurrentTarget.cy)
                     => animationState'.focusY = CurrentTarget.cy]_vars
  /\ [][(AtTarget /\ UNCHANGED targetInputs) => AtTarget']_vars

\* C5 witness: a tick found the scale of a zoomed target within MIN_DELTA but
\* not yet on it, and the state is now exactly the target.
C5_Witness ==
  /\ lastTick # Null
  /\ lastTick.target.scale > FP
  /\ lastTick.prev.scale # lastTick.target.scale
  /\ Near(lastTick.prev.scale, lastTick.target.scale)
  /\ lastTick.target = CurrentTarget
  /\ AtTarget

\* value lies between a and b, inclusive
Between(value, a, b) == Min(a, b) <= value /\ value <= Max(a, b)

InterpolatedFocusFP(region, timeMs) ==
  LET at == interpolateFocusFromKeyframes(region, timeMs)
  IN [cx |-> TruncDiv(at.cx.n * (FP \div NormScale), at.cx.d),
      cy |-> TruncDiv(at.cy.n * (FP \div NormScale), at.cy.d)]

\* C7: on every tick with a dominant region of strength > 0, the region focus
\* that enters targetFocus is the region's focus interpolated over its
\* keyframes at the current playback time, clamped for the region's depth.
C7_TickUsesInterpolatedFocus ==
  [][Tick =>
       (lastTick'.target.regionFocus # Null =>
          lastTick'.target.regionFocus =
            clampFocusToStage(InterpolatedFocusFP(lastTick'.target.region, currentTime),
                              lastTick'.target.region.depth))]_vars

\* C19: from {scale: 1, focusX: 0.5, focusY: 0.5}, after any ticks over the
\* region lists and playback times, the animation state has
\* 1 <= scale <= 5.0 (the largest depth scale) and focusX, focusY in [0,1].
C19_AnimationStateBounded ==
  /\ FP <= animationState.scale
  /\ animationState.scale <= ZOOM_DEPTH_SCALES[6]
  /\ \A depth \in 1 .. 6 : ZOOM_DEPTH_SCALES[depth] <= ZOOM_DEPTH_SCALES[6]
  /\ 0 <= animationState.focusX /\ animationState.focusX <= FP
  /\ 0 <= animationState.focusY /\ animationState.focusY <= FP

\* C19 witness: ticks took the state to the full scale of depth 6, away from
\* the centre.
C19_Witness ==
  /\ lastTick # Null
  /\ animationState.scale = ZOOM_DEPTH_SCALES[6]
  /\ animationState.focusX > DEFAULT_FOCUS.cx
  /\ animationState.focusY < DEFAULT_FOCUS.cy

\* the largest of the three per-axis changes between two animation states
LargestChange(before, after) ==
  Max(Abs(after.scale - before.scale),
      Max(Abs(after.focusX - before.focusX), Abs(after.focusY - before.focusY)))

\* C25: after every tick that applies a transform the blur radius is 0 if
\* playback is not playing or the tick's motion intensity (the largest of the
\* three per-axis changes made in the tick) is at most 0.0005, and otherwise
\* min(6, 120 * intensity); the blur radius is always in [0, 6].
C25_MotionBlurGating ==
  /\ [](0 <= blur /\ blur <= 6 * FP)
  /\ [][(Tick /\ ~GeometryMissing(stageSize, videoSize, baseScale))
          => blur' = IF ~isPlaying
                        \/ 2000 * LargestChange(animationState, animationState') <= FP
                     THEN 0
                     ELSE Min(6 * FP, 120 * LargestChange(animationState, animationState'))]_vars

\* C25 witness: the last tick ran while playing, moved the state by more than
\* 0.0005 and set a blur radius strictly between 0 and 6.
C25_Witness ==
  /\ lastTick # Null
  /\ lastTick.applied
  /\ isPlaying
  /\ 2000 * lastTick.motionIntensity > FP
  /\ blur = 120 * lastTick.motionIntensity
  /\ blur < 6 * FP

\* C25 second witness: the last tick ran while paused and moved the state by
\* more than 0.0005; the blur radius is 0.
C25_PausedWitness ==
  /\ lastTick # Null
  /\ lastTick.applied
  /\ ~isPlaying
  /\ inputChanges = 0
  /\ 2000 * lastTick.motionIntensity > FP
  /\ blur = 0

\* a value smoothed from before toward target ended at after without
\* leaving the stretch between them: not farther from the target than
\* before, and on the same side of it
NoOvershoot(before, after, target) ==
  /\ Min(before, target) <= after /\ after <= Max(before, target)
  /\ Abs(target - after) <= Abs(target - before)
  /\ (before <= target => after <= target)
  /\ (before >= target => after >= target)

\* C29: in every tick each of scale, focusX and focusY ends at a value
\* between its value before the tick and its target for that tick
\* (inclusive); its distance to the target never grows and it never crosses
\* to the other side of the target.
C29_NoOvershoot ==
  [][Tick => /\ NoOvershoot(animationState.scale, animationState'.scale,
                            CurrentTarget.scale)
             /\ NoOvershoot(animationState.focusX, animationState'.focusX,
                            CurrentTarget.cx)
             /\ NoOvershoot(animationState.focusY, animationState'.focusY,
                            CurrentTarget.cy)]_vars

\* C29 witness: the last tick moved the scale up and focusY down, each to a
\* value strictly between where it was and its target.
C29_Witness ==
  /\ lastTick # Null
  /\ lastTick.prev.scale < animationState.scale
  /\ animationState.scale < lastTick.target.scale
  /\ lastTick.prev.focusY > animationState.focusY
  /\ animationState.focusY > lastTick.target.cy

\* the animation state of un-zoomed playback
RestingState == [scale |-> FP, focusX |-> FP \div 2, focusY |-> FP \div 2]

\* the zoom the sprite shows: its scale over the base scale, in units of 1/FP
\* (to four decimal places)
ShownZoom(spriteScale) == TruncDiv(spriteScale * 10000, baseScale) * (FP \div 10000)

\* where the sprite with position pos and scale spriteScale shows the content
\* that the base layout shows at stage position focus * size, in 1/FP pixel
ShownAt(pos, spriteScale, focus, size, offset) ==
  pos + MulFP[focus * size - offset, ShownZoom(spriteScale)]

\* the rounding allowed where a position is computed a second way: a quarter pixel
PositionTolerance == FP \div 4

\* C39: when the animation state is {scale: 1, focusX: 0.5, focusY: 0.5} and
\* the geometry is known, the transform a tick applies has the base scale and
\* the base offset; and in every state the transform a tick applies shows the
\* focus point at the geometric center of the stage.
C39_RestingTransform ==
  [][(Tick /\ ~GeometryMissing(stageSize, videoSize, baseScale))
       => /\ animationState' = RestingState
               => /\ sprite'.scale = baseScale
                  /\ sprite'.x = baseOffset.x
                  /\ sprite'.y = baseOffset.y
          /\ Abs(ShownAt(sprite'.x, sprite'.scale, animationState'.focusX,
                         stageSize.width, baseOffset.x)
                   - (stageSize.width * FP) \div 2) <= PositionTolerance
          /\ Abs(ShownAt(sprite'.y, sprite'.scale, animationState'.focusY,
                         stageSize.height, baseOffset.y)
                   - (stageSize.height * FP) \div 2) <= PositionTolerance]_vars

\* C39 witness: a tick applied the resting state with the geometry known, and
\* the sprite is where the layout placed it, off the stage's corner and
\* scaled down.
C39_Witness ==
  /\ lastTick # Null
  /\ lastTick.applied
  /\ animationState = RestingState
  /\ sprite = [scale |-> baseScale, x |-> baseOffset.x, y |-> baseOffset.y]
  /\ baseScale < FP
  /\ baseOffset.x > 0

\* C39 witness: a tick applied a zoomed state whose focus is off the center;
\* the sprite is larger than in the base layout and has moved.
C39_ZoomedWitness ==
  /\ lastTick # Null
  /\ lastTick.applied
  /\ animationState.scale > FP
  /\ animationState.focusX # FP \div 2
  /\ sprite.scale > baseScale
  /\ sprite.x # baseOffset.x
  /\ Abs(ShownAt(sprite.x, sprite.scale, animationState.focusX,
                 stageSize.width, baseOffset.x)
           - (stageSize.width * FP) \div 2) <= PositionTolerance

(***************************************************************************)
(* Claims about clampFocusToStage (checked under SpecClamp).               *)
(***************************************************************************)
\* the zoomed viewport (the video at the base scale, divided by the zoom of
\* the depth) is at least as long as the stage along an axis
ViewportCoversStage(extent, stageExtent, depth, base) ==
  extent * base >= ZoomDepthPercent[depth] * stageExtent * (FP \div 100)

\* half the zoomed viewport's extent normalized by the stage's, in units of
\* 1/FP, computed in one chain of divisions
HalfViewport(extent, stageExtent, depth, base) ==
  ((((extent * base) \div ZoomDepthPercent[depth]) * 100) \div stageExtent) \div 2

\* value v of one axis of the result for the input f: inside [m, 1 - m], equal
\* to 0.5 when the viewport covers the stage, equal to f when f was inside
\* the range; m is half the normalized viewport to within one unit of 1/FP
AxisClamped(f, v, extent, stageExtent, depth, base) ==
  LET m == FocusRange(extent, stageExtent, depth, base).min
  IN IF ViewportCoversStage(extent, stageExtent, depth, base)
     THEN v = FP \div 2
     ELSE /\ Abs(m - HalfViewport(extent, stageExtent, depth, base)) <= 1
          /\ m <= v /\ v <= FP - m
          /\ (m <= f /\ f <= FP - m) => v = f

\* C24: with known geometry clampFocusToStage returns a focus whose cx lies
\* in [m, 1 - m], m being half the zoomed viewport's width normalized by the
\* stage width (likewise cy with the heights); when the zoomed viewport is at
\* least as wide (tall) as the stage the result's cx (cy) is exactly 0.5; a
\* focus already inside the range is returned unchanged, so clamping what
\* clamping returned changes nothing.
C24_ValidFocusRange ==
  (stageClamp # Null
     /\ ~GeometryMissing(stageClamp.stage, stageClamp.video, stageClamp.base))
    => /\ AxisClamped(stageClamp.focus.cx, stageClamp.result.cx, stageClamp.video.width,
                      stageClamp.stage.width, stageClamp.depth, stageClamp.base)
       /\ AxisClamped(stageClamp.focus.cy, stageClamp.result.cy, stageClamp.video.height,
                      stageClamp.stage.height, stageClamp.depth, stageClamp.base)
       /\ clampFocusToStageAt(stageClamp.result, stageClamp.depth, stageClamp.stage,
                              stageClamp.video, stageClamp.base) = stageClamp.result

\* C24 witness: at depth 2 on the small stage a focus of (0.2, 0.2) came back
\* as (0.5, m) with 0.2 < m < 0.5: the viewport covers the stage's width but
\* not its height.
C24_Witness ==
  /\ stageClamp # Null
  /\ stageClamp.depth = 2
  /\ stageClamp.focus = [cx |-> FP \div 5, cy |-> FP \div 5]
  /\ ViewportCoversStage(stageClamp.video.width, stageClamp.stage.width, 2, stageClamp.base)
  /\ ~ViewportCoversStage(stageClamp.video.height, stageClamp.stage.height, 2,
                          stageClamp.base)
  /\ stageClamp.result.cx = FP \div 2
  /\ stageClamp.result.cy > FP \div 5
  /\ stageClamp.result.cy < FP \div 2

\* C24 second witness: clamping was applied to a focus it had returned, one
\* that differs from the focus given first.
C24_AgainWitness ==
  /\ stageClamp # Null
  /\ ~GeometryMissing(stageClamp.stage, stageClamp.video, stageClamp.base)
  /\ stageClamp.focus = stageClamp.result
  /\ stageClamp.focus.cx \notin FocusGrid

(***************************************************************************)
(* Claims about cursor event storage (checked under SpecStorage).          *)
(***************************************************************************)
\* loaded has the fields of stored, with the same values
SameEvent(stored, loaded) ==
  /\ DOMAIN loaded = DOMAIN stored
  /\ \A key \in DOMAIN stored :
        IF key \in NumberKeys
        THEN FracEq(loaded[key], FieldNumber(key, stored[key]))
        ELSE loaded[key] = stored[key]

C26_MissingSidecar ==
  (lastLoad # Null /\ FileAt(recordingFiles, lastLoad.eventsPath) = Null)
    => /\ "rejected" \notin DOMAIN lastLoad
       /\ "error" \notin DOMAIN lastLoad
       /\ "events" \in DOMAIN lastLoad
       /\ lastLoad.events = <<>>

\* C26 witness: events were stored for one recording and a load then asked
\* for another, which has no sidecar file.
C26_Witness ==
  /\ lastStore # Null
  /\ lastStore.success
  /\ Len(lastStore.events) > 0
  /\ lastLoad # Null
  /\ lastLoad.videoPath # JoinRecordingsDir(lastStore.videoFileName)
  /\ FileAt(recordingFiles, lastLoad.eventsPath) = Null
  /\ lastLoad.events = <<>>

\* the paths of the video files
VideoPaths == {JoinRecordingsDir(name) : name \in VideoFileNames}

\* C27: for every video file name the handlers accept, the sidecar name that
\* store-cursor-events and load-cursor-events compute differs from the
\* video's own name: storing never writes at the path of a video and loading
\* never reads the video file as the event stream.
C27_SidecarDistinct ==
  /\ \A f \in recordingFiles : f.path \notin VideoPaths
  /\ (lastStore # Null /\ lastStore.success)
       => lastStore.path # JoinRecordingsDir(lastStore.videoFileName)
  /\ lastLoad # Null => lastLoad.eventsPath # lastLoad.videoPath

(***************************************************************************)
(* Claims about the cursor overlay (checked under SpecOverlay).            *)
(***************************************************************************)
\* the list holds a click less than CLICK_WINDOW_MS away from timeMs
ClickNear(timeMs) ==
  \E i \in 1 .. Len(overlayEvents) :
     /\ overlayEvents[i].type = "click"
     /\ Abs(overlayEvents[i].timestamp - timeMs) < CLICK_WINDOW_MS

\* C15: getCursorPositionAtTime returns isClick = true exactly when the list
\* contains a click event less than 300 ms away from the time asked for.
C15_ClickFlag ==
  (cursorAt # Null /\ cursorAt.result # Null)
    => (cursorAt.result.isClick <=> ClickNear(cursorAt.timeMs))

\* the events at or before timeMs, and those after it
AtOrBefore(timeMs) == {i \in 1 .. Len(overlayEvents) : overlayEvents[i].timestamp <= timeMs}

After(timeMs) == {i \in 1 .. Len(overlayEvents) : overlayEvents[i].timestamp > timeMs}

Latest(indices) == CHOOSE i \in indices : \A j \in indices : j <= i

Earliest(indices) == CHOOSE i \in indices : \A j \in indices : i <= j

PositionOf(i) ==
  [x |-> Frac(overlayEvents[i].normalizedX, 1), y |-> Frac(overlayEvents[i].normalizedY, 1)]

SamePosition(p, q) == FracEq(p.x, q.x) /\ FracEq(p.y, q.y)

\* p = a + s * (b - a) for the fraction s
OnSegmentAt(p, a, b, s) ==
  /\ FracEq(p.x, Frac(a.x.n * s.d + (b.x.n - a.x.n) * s.n, s.d))
  /\ FracEq(p.y, Frac(a.y.n * s.d + (b.y.n - a.y.n) * s.n, s.d))

\* the share of the way from a to b at which p lies (for a.x # b.x)
ShareOfWay(p, a, b) ==
  FracReduce(Frac(p.x.n - a.x.n * p.x.d, (b.x.n - a.x.n) * p.x.d))

\* C16: for a timestamp-ordered list the result is none for the empty list,
\* the first event's position before every event, the last event's position
\* when no event is later, and otherwise a point on the segment from the
\* latest event at or before the time to the earliest event after it: the
\* earlier position at the earlier event's time, and never further from it
\* at an earlier time between the same two events.
C16_PositionAtTime ==
  cursorAt # Null =>
    LET timeMs == cursorAt.timeMs
        result == cursorAt.result
    IN IF Len(overlayEvents) = 0 THEN result = Null
       ELSE /\ result # Null
            /\ IF AtOrBefore(timeMs) = {} THEN SamePosition(result, PositionOf(1))
               ELSE IF After(timeMs) = {}
               THEN SamePosition(result, PositionOf(Len(overlayEvents)))
               ELSE
                 LET b == Latest(AtOrBefore(timeMs))
                     a == Earliest(After(timeMs))
                 IN /\ \E s \in {ShareOfWay(result, PositionOf(b), PositionOf(a))} :
                         \/ /\ PositionOf(b).x = PositionOf(a).x
                            /\ SamePosition(PositionOf(b), PositionOf(a))
                            /\ SamePosition(result, PositionOf(b))
                         \/ /\ PositionOf(b).x # PositionOf(a).x
                            /\ FracLeq(FracZero, s) /\ FracLess(s, FracOne)
                            /\ OnSegmentAt(result, PositionOf(b), PositionOf(a), s)
                            /\ \A earlier \in OverlayTimes :
                                  (overlayEvents[b].timestamp <= earlier /\ earlier < timeMs)
                                    => FracLeq(ShareOfWay(
                                                 getCursorPositionAtTime(overlayEvents, earlier),
                                                 PositionOf(b), PositionOf(a)), s)
                    /\ timeMs = overlayEvents[b].timestamp
                         => SamePosition(result, PositionOf(b))

\* C16 witness: the cursor was located strictly between two events at
\* different positions, after a third event, and lies strictly between them.
C16_Witness ==
  /\ cursorAt # Null
  /\ Len(overlayEvents) = 3
  /\ cursorAt.timeMs = 150
  /\ overlayEvents[2].timestamp = 100
  /\ overlayEvents[3].timestamp = 200
  /\ overlayEvents[2].normalizedX # overlayEvents[3].normalizedX
  /\ cursorAt.result # Null
  /\ SamePosition(cursorAt.result, [x |-> Frac(500, 1), y |-> Frac(500, 1)])

(***************************************************************************)
(* Claims about the focus overlay (checked under SpecDrag).                *)
(***************************************************************************)
\* the step is the handling of one pointer event of kind op
PointerStep(op) == pointerSteps' = pointerSteps + 1 /\ lastPointer'.op = op

\* playback is paused and the selected region is in the region list
CanStartDrag ==
  /\ ~isPlaying
  /\ selectedZoomId # Null
  /\ \E i \in 1 .. Len(zoomRegions) : zoomRegions[i].id = selectedZoomId

\* C40: onZoomFocusChange is invoked only between a pointer-down that arrived
\* while playback was paused with the selected region in the region list and
\* the next pointer-up or pointer-leave; a pointer-down while playing or with
\* no existing selected region starts no drag, a pointer move outside a drag
\* changes no focus, and every focus emitted has cx and cy in [0,1].
C40_FocusEditsInsideDrag ==
  /\ [](lastPointer.emitted # Null
          => /\ inGesture
             /\ lastPointer.op \in {"down", "move"}
             /\ 0 <= lastPointer.emitted.focus.cx /\ lastPointer.emitted.focus.cx <= FP
             /\ 0 <= lastPointer.emitted.focus.cy /\ lastPointer.emitted.focus.cy <= FP)
  /\ [][(PointerStep("down") /\ ~CanStartDrag)
          => /\ UNCHANGED isDraggingFocus
             /\ lastPointer'.emitted = Null]_vars
  /\ [][(PointerStep("move") /\ ~inGesture) => lastPointer'.emitted = Null]_vars
  /\ [](isDraggingFocus = inGesture)

\* C40 witness: a move inside a drag has emitted a focus for the selected
\* region; the pointer was left of and above the overlay and the focus was
\* brought into the stage.
C40_Witness ==
  /\ lastPointer.op = "move"
  /\ lastPointer.emitted # Null
  /\ lastPointer.emitted.id = selectedZoomId
  /\ inGesture
  /\ lastPointer.emitted.focus.cx > 0
  /\ lastPointer.emitted.focus.cx < FP \div 2

\* C40 witness: a pointer-down arrived while playback was playing and a region
\* of the list was selected; no drag began.
C40_PlayingWitness ==
  /\ lastPointer.op = "down"
  /\ isPlaying
  /\ selectedZoomId # Null
  /\ FindRegionById(zoomRegions, selectedZoomId) # Null
  /\ ~isDraggingFocus
  /\ lastPointer.emitted = Null

\* C40 witness: a move arrived after a pointer-up had ended a drag, with
\* playback paused and the region still selected, and emitted nothing.
C40_MoveOutsideWitness ==
  /\ lastPointer.op = "move"
  /\ lastPointer.emitted = Null
  /\ ~inGesture
  /\ CanStartDrag
  /\ focusOverlay.indicator # Null
  /\ pointerSteps >= 4

====
